---- MODULE Spec2Model ----
(***************************************************************************)
(* Dependency engine of rust-build: targets, effects, filtered effect      *)
(* views, the file effect with its modification-time cache, and the        *)
(* recursive make / build_deps / commit traversal of the Target trait.     *)
(***************************************************************************)
EXTENDS Integers, Sequences, FiniteSets, TLC

\* ----------------------------------------------------------------------
\* Bounds of the model
\* ----------------------------------------------------------------------

\* Number of successive top-level make runs explored.
MaxRuns ==
    2

\* Number of nanosecond values per second (stands for 10^9).
NanosPerSec ==
    2

\* Longest effect list and longest filter pipeline of the views iterated
\* on their own.
MaxEffects ==
    3

MaxFilters ==
    2

\* Number of nested make activations the call stack has room for.
MaxDepth ==
    4

\* Largest number of seconds, before or after the epoch, of the entries
\* written to a cache used on its own.
MaxSecs ==
    10

\* Number of components of the path of the cache directory.
CacheDirDepth ==
    2

\* Number of effects an installer script gives to a CargoTargetBuilder.
MaxGiven ==
    2

\* Number of targets an installer script adds to a Builder.
MaxTargets ==
    3

\* Number of components of the longest path the operating system opens.
MaxPath ==
    5

\* ----------------------------------------------------------------------
\* Variables
\* ----------------------------------------------------------------------
VARIABLES
    graph,      \* which target graph the installer script has constructed
    mtime,      \* filesystem: artifact path -> last-modified time, or NoFile
    cache,      \* cache directory: artifact path -> stored entry, or NoEntry
    clock,      \* clock tick that builds of the current / last run write
    phase,      \* "idle" between runs, "running" inside a top-level make
    run,        \* number of top-level make calls started so far
    root,       \* target the installer calls make on
    force,      \* the force argument of the current / last run
    dryRun,     \* the dry_run argument of the current / last run
    stack,      \* call stack of make frames, innermost last
    result,     \* result of the last finished top-level make
    log,        \* calls made so far in the current / last run, in order
    cache0,     \* cache as it was when the current / last run started
    mtime0,     \* filesystem as it was when the current / last run started
    prev,       \* summary of the run before the current / last one
    abortedAt,  \* call stack at the moment the last run failed
    vEffects,   \* a view iterated on its own: effects() of its target
    vFilters,   \*   its filter pipeline
    vKind,      \*   "into" when iterated by value, "ref" when borrowed
    vPos,       \*   position of the underlying slice iterator
    vOut,       \*   effects yielded so far, in order
    vDone,      \*   next() has returned None
    cLast,      \* the cache used on its own: the last call and its result
    cPut,       \*   per path, what the last update_file stored
    cFs,        \*   what is on disk at each prefix of the cache directory's path
    cNew,       \*   the last call of Cache::new and its result
    cgRoot,     \* a CargoTarget used on its own: the directory it is about
    cgFiles,    \*   the Cargo.toml files on disk, per directory
    cgBuilder,  \*   the CargoTargetBuilder
    cgTarget,   \*   what CargoTargetBuilder::build returned
    cgLast,     \*   the last call of CargoTarget::build and its result
    bldr,       \* a Builder used on its own: the targets added to it
    bldrLast,   \*   the last call of add_target
    installer   \*   the Installer assembled from the Builder

engineVars ==
    << graph, mtime, cache, clock, phase, run, root, force, dryRun, stack,
       result, log, cache0, mtime0, prev, abortedAt >>

viewVars ==
    << vEffects, vFilters, vKind, vPos, vOut, vDone >>

cacheVars ==
    << cLast, cPut, cFs, cNew >>

cargoVars ==
    << cgRoot, cgFiles, cgBuilder, cgTarget, cgLast >>

installerVars ==
    << bldr, bldrLast, installer >>

vars ==
    << engineVars, viewVars, cacheVars, cargoVars, installerVars >>

\* ----------------------------------------------------------------------
\* Modification times (LastEditedTime wraps FileTime: seconds, nanoseconds)
\* ----------------------------------------------------------------------

\* A file that does not exist has no modification time.
NoFile ==
    << 0, -1 >>

\* A cache directory without an entry file for the artifact (Ok(None)).
NoEntry ==
    << 0, -1 >>

\* An entry file whose content serde_json cannot read as a CacheEntry.
Corrupt ==
    << 0, -2 >>

\* The (seconds, nanoseconds) pair of clock tick k.
TimeOf(k) ==
    << k \div NanosPerSec, k % NanosPerSec >>

\* Derived Ord of LastEditedTime: seconds first, then nanoseconds.
TimeGt(a, b) ==
    \/ a[1] > b[1]
    \/ a[1] = b[1] /\ a[2] > b[2]

\* What an artifact and its cache entry can look like before the first
\* run, as << modification time, cache entry >>: the file missing or
\* present, the entry absent, equal, older, newer or malformed.
InitPairs ==
    { << NoFile, NoEntry >>,    << NoFile, TimeOf(0) >>,
      << TimeOf(0), NoEntry >>, << TimeOf(0), TimeOf(0) >>,
      << TimeOf(1), TimeOf(0) >>, << TimeOf(0), TimeOf(1) >>,
      << TimeOf(0), Corrupt >> }

\* ----------------------------------------------------------------------
\* The entry files of the cache: serde_json text of a CacheEntry
\* ----------------------------------------------------------------------
DigitChars ==
    << "0", "1", "2", "3", "4", "5", "6", "7", "8", "9" >>

\* Decimal digits of n >= 0, most significant first.
RECURSIVE DigitsOf(_)
DigitsOf(n) ==
    IF n < 10 THEN << DigitChars[n + 1] >>
    ELSE Append(DigitsOf(n \div 10), DigitChars[(n % 10) + 1])

\* An integer as serde_json writes it.
Itoa(n) ==
    IF n < 0 THEN << "-" >> \o DigitsOf(-n) ELSE DigitsOf(n)

\* Serialize for LastEditedTime writing the nanoseconds first.
SerializeTimeNanosFirst(t) ==
    << "[" >> \o Itoa(t[2]) \o << "," >> \o Itoa(t[1]) \o << "]" >>

\* Serialize for LastEditedTime: the sequence [unix_seconds, nanoseconds].
SerializeTime(t) ==
    << "[" >> \o Itoa(t[1]) \o << "," >> \o Itoa(t[2]) \o << "]" >>

\* serde_json::to_writer of a CacheEntry { last_edited }.
ToWriter(entry) ==
    << "{", "last_edited", ":" >> \o SerializeTime(entry) \o << "}" >>

IsDigit(c) ==
    \E d \in 1 .. 10 : DigitChars[d] = c

DigitVal(c) ==
    (CHOOSE d \in 1 .. 10 : DigitChars[d] = c) - 1

\* Reads the digits of text from position i on: the value read, added to
\* acc, and the position after the last digit.
RECURSIVE ParseDigits(_, _, _)
ParseDigits(text, i, acc) ==
    IF i <= Len(text) /\ IsDigit(text[i])
    THEN ParseDigits(text, i + 1, 10 * acc + DigitVal(text[i]))
    ELSE [val |-> acc, pos |-> i]

\* Reads a number at position i; ok is FALSE when there is none, or when
\* it is negative and signed is FALSE (a u32 is expected).
ParseNumber(text, i, signed) ==
    LET neg == i <= Len(text) /\ text[i] = "-"
        j   == IF neg THEN i + 1 ELSE i
        d   == ParseDigits(text, j, 0)
    IN [ ok  |-> d.pos > j /\ (neg => signed),
         val |-> IF neg THEN 0 - d.val ELSE d.val,
         pos |-> d.pos ]

\* serde_json::from_reader of an entry file: the entry, or Corrupt when
\* the text is not a CacheEntry (Deserialize for LastEditedTime reads an
\* i64 and a u32 from a sequence).
FromReader(text) ==
    IF Len(text) < 4 \/ SubSeq(text, 1, 4) # << "{", "last_edited", ":", "[" >>
    THEN Corrupt
    ELSE LET secs == ParseNumber(text, 5, TRUE) IN
         IF ~secs.ok \/ secs.pos > Len(text) \/ text[secs.pos] # ","
         THEN Corrupt
         ELSE LET nano == ParseNumber(text, secs.pos + 1, FALSE) IN
              IF ~nano.ok \/ SubSeq(text, nano.pos, Len(text)) # << "]", "}" >>
              THEN Corrupt
              ELSE << secs.val, nano.val >>

\* ----------------------------------------------------------------------
\* View filters and the iterators over an EffectView
\* ----------------------------------------------------------------------
FilterNone ==
    [kind |-> "None", names |-> << >>]

FilterAll ==
    [kind |-> "All", names |-> << >>]

FilterAllow(names) ==
    [kind |-> "Allow", names |-> names]

FilterDeny(names) ==
    [kind |-> "Deny", names |-> names]

\* `for n in names { if n == effect.name() { return ...; } }`: TRUE iff the
\* loop over the names from position i on meets the effect's name.
RECURSIVE NameLoopHits(_, _, _)
NameLoopHits(names, i, ename) ==
    IF i > Len(names) THEN FALSE
    ELSE IF names[i] = ename THEN TRUE
    ELSE NameLoopHits(names, i + 1, ename)

\* ViewFilter::filter with the result of the Deny loop not inverted.
FilterDenyAsAllow(f, ename) ==
    CASE f.kind = "None"  -> FALSE
      [] f.kind = "All"   -> TRUE
      [] f.kind = "Allow" -> NameLoopHits(f.names, 1, ename)
      [] f.kind = "Deny"  -> NameLoopHits(f.names, 1, ename)

\* ViewFilter::filter
Filter(f, ename) ==
    CASE f.kind = "None"  -> FALSE
      [] f.kind = "All"   -> TRUE
      [] f.kind = "Allow" -> NameLoopHits(f.names, 1, ename)
      [] f.kind = "Deny"  -> ~NameLoopHits(f.names, 1, ename)

\* The filter loop of next() assigning `allowed` at every filter and never
\* leaving the loop: the last filter decides.
RECURSIVE AllowedLastDecides(_, _, _)
AllowedLastDecides(filters, i, ename) ==
    IF i > Len(filters) THEN TRUE
    ELSE IF i = Len(filters) THEN Filter(filters[i], ename)
    ELSE AllowedLastDecides(filters, i + 1, ename)

\* The `allowed` flag computed by the filter loop of an iterator's next():
\* starts TRUE, set FALSE (and the loop left) at the first refusing filter.
RECURSIVE Allowed(_, _, _)
Allowed(filters, i, ename) ==
    IF i > Len(filters) THEN TRUE
    ELSE IF ~Filter(filters[i], ename) THEN FALSE
    ELSE Allowed(filters, i + 1, ename)

\* EffectViewIter::next (iteration of a borrowed view).  pos is the number
\* of effects the underlying slice iterator has consumed.  The result is
\* the index of the effect returned (0 for None) and the new position.
RECURSIVE IterNext(_, _, _)
IterNext(effects, filters, pos) ==
    IF pos >= Len(effects) THEN [item |-> 0, pos |-> Len(effects)]
    ELSE IF ~Allowed(filters, 1, effects[pos + 1].name)
         THEN IterNext(effects, filters, pos + 1)
    ELSE [item |-> pos + 1, pos |-> pos + 1]

\* EffectViewIntoIter::next (iteration of a view by value).
RECURSIVE IntoIterNext(_, _, _)
IntoIterNext(effects, filters, pos) ==
    IF pos >= Len(effects) THEN [item |-> 0, pos |-> Len(effects)]
    ELSE IF ~Allowed(filters, 1, effects[pos + 1].name)
         THEN IntoIterNext(effects, filters, pos + 1)
    ELSE [item |-> pos + 1, pos |-> pos + 1]

\* Target::view
view(t) ==
    [target |-> t, filters |-> << FilterAll >>]

\* Target::view_names handing out the unfiltered view.
view_namesUnfiltered(t, names) ==
    [target |-> t, filters |-> << FilterAll >>]

\* Target::view_names
view_names(t, names) ==
    [target |-> t, filters |-> << FilterAllow(names) >>]

\* EffectView::add_filter
add_filter(v, f) ==
    [target |-> v.target, filters |-> Append(v.filters, f)]

\* ----------------------------------------------------------------------
\* Effects
\* ----------------------------------------------------------------------

\* File::new: a file effect with a name and the path of its artifact.
File(name, path) ==
    [name |-> name, kind |-> "file", path |-> path]

TrueEffect ==
    [name |-> "<true>", kind |-> "true", path |-> ""]

FalseEffect ==
    [name |-> "<false>", kind |-> "false", path |-> ""]

\* Results of the fallible calls.
Ok(v) ==
    [err |-> FALSE, val |-> v]

Err ==
    [err |-> TRUE, val |-> FALSE]

\* What can be on disk at a path: nothing, a regular file or a directory.
NodeKinds ==
    {"none", "file", "dir"}

\* The states of the disk along the path of the cache directory: fs[i] is
\* what is at the prefix of i components.  Below anything but a directory
\* there is nothing.
FsStates ==
    { fs \in [1 .. CacheDirDepth -> NodeKinds] :
        \A i \in 1 .. CacheDirDepth - 1 : fs[i] # "dir" => fs[i + 1] = "none" }

\* Path::exists and Path::is_dir of the cache directory's path.
PathExists(fs) ==
    fs[CacheDirDepth] # "none"

PathIsDir(fs) ==
    fs[CacheDirDepth] = "dir"

\* fs::create_dir, which does not create missing parents.
CreateDir(fs) ==
    IF \E i \in 1 .. CacheDirDepth - 1 : fs[i] # "dir"
    THEN [err |-> TRUE, fs |-> fs]
    ELSE [err |-> FALSE, fs |-> [fs EXCEPT ![CacheDirDepth] = "dir"]]

\* fs::create_dir_all of a path that does not exist: creates the
\* directory and every missing parent, and fails when a prefix of the
\* path is a regular file.
CreateDirAll(fs) ==
    IF \E i \in 1 .. CacheDirDepth : fs[i] = "file"
    THEN [err |-> TRUE, fs |-> fs]
    ELSE [err |-> FALSE, fs |-> [i \in 1 .. CacheDirDepth |-> "dir"]]

\* Cache::new(path, create_path) on disk state fs and directory content
\* ch: the kind of the result, and the disk and the directory afterwards.
CacheNew(fs, ch, create_path) ==
    LET made == IF ~PathExists(fs) /\ create_path THEN CreateDirAll(fs)
                ELSE [err |-> FALSE, fs |-> fs]
    IN IF ~PathExists(fs) /\ ~create_path
       THEN [kind |-> "CacheDirNotFound", fs |-> fs, cache |-> ch]
       ELSE IF made.err
       THEN [kind |-> "CacheDirCreateError", fs |-> fs, cache |-> ch]
       ELSE IF ~PathIsDir(made.fs)
       THEN [kind |-> "CacheDirNotADir", fs |-> made.fs, cache |-> ch]
       ELSE [kind |-> "Ok", fs |-> made.fs, cache |-> ch]

\* Cache::hash without `source.hash(&mut hasher)`: the hasher is finished
\* with nothing fed to it, so every source gets the same number.
hashUnfed(source) ==
    "x"

\* Cache::hash, printed as get_file and update_file print it: the name of
\* the entry file of a path.  It is written as the path itself, but for the
\* path "yy", which stands for a path whose 64-bit hash is that of "y".
hash(source) ==
    IF source = "yy" THEN "y" ELSE source

\* Cache::get_file opening the entry file with File::create: a missing
\* entry file comes into being, empty.
GetFileCreates(ch, path) ==
    IF ch[hash(path)] = NoEntry
    THEN [err |-> FALSE, some |-> FALSE, entry |-> NoEntry,
          cache |-> [ch EXCEPT ![hash(path)] = Corrupt]]
    ELSE IF ch[hash(path)] = Corrupt
    THEN [err |-> TRUE, some |-> FALSE, entry |-> NoEntry, cache |-> ch]
    ELSE [err |-> FALSE, some |-> TRUE, entry |-> ch[hash(path)],
          cache |-> ch]

\* Cache::get_file taking an entry file it cannot parse for a missing one.
GetFileCorruptAsAbsent(ch, path) ==
    IF ch[hash(path)] = NoEntry \/ ch[hash(path)] = Corrupt
    THEN [err |-> FALSE, some |-> FALSE, entry |-> NoEntry, cache |-> ch]
    ELSE [err |-> FALSE, some |-> TRUE, entry |-> ch[hash(path)],
          cache |-> ch]

\* Cache::get_file on cache directory ch: Ok(None) without an entry file,
\* an error when the entry file cannot be parsed, Ok(Some(entry))
\* otherwise.  cache is the directory after the call: it is only read.
GetFile(ch, path) ==
    IF ch[hash(path)] = NoEntry
    THEN [err |-> FALSE, some |-> FALSE, entry |-> NoEntry, cache |-> ch]
    ELSE IF ch[hash(path)] = Corrupt
    THEN [err |-> TRUE, some |-> FALSE, entry |-> NoEntry, cache |-> ch]
    ELSE [err |-> FALSE, some |-> TRUE, entry |-> ch[hash(path)],
          cache |-> ch]

\* File::has_changed taking a missing cache entry for "unchanged".
FileHasChangedNoEntryUnchanged(m, g) ==
    IF m = NoFile THEN [err |-> TRUE, val |-> FALSE]
    ELSE IF g.err THEN [err |-> TRUE, val |-> FALSE]
    ELSE IF ~g.some THEN [err |-> FALSE, val |-> FALSE]
    ELSE IF TimeGt(g.entry, m) THEN [err |-> FALSE, val |-> TRUE]
    ELSE [err |-> FALSE, val |-> g.entry # m]

\* File::has_changed taking a missing artifact for a changed one.
FileHasChangedMissingIsChanged(m, g) ==
    IF m = NoFile THEN [err |-> FALSE, val |-> TRUE]
    ELSE IF g.err THEN [err |-> TRUE, val |-> FALSE]
    ELSE IF ~g.some THEN [err |-> FALSE, val |-> TRUE]
    ELSE IF TimeGt(g.entry, m) THEN [err |-> FALSE, val |-> TRUE]
    ELSE [err |-> FALSE, val |-> g.entry # m]

\* File::has_changed reporting a change only when the artifact is newer
\* than the cache says.
FileHasChangedNewerOnly(m, g) ==
    IF m = NoFile THEN [err |-> TRUE, val |-> FALSE]
    ELSE IF g.err THEN [err |-> TRUE, val |-> FALSE]
    ELSE IF ~g.some THEN [err |-> FALSE, val |-> TRUE]
    ELSE [err |-> FALSE, val |-> TimeGt(m, g.entry)]

\* File::has_changed, given the artifact's modification time m and what
\* get_file returned for its path.
FileHasChanged(m, g) ==
    IF m = NoFile THEN Err
    ELSE IF g.err THEN Err
    ELSE IF ~g.some THEN Ok(TRUE)
    ELSE IF TimeGt(g.entry, m) THEN Ok(TRUE)
    ELSE Ok(g.entry # m)

\* Effect::has_changed with TrueEffect answering as FalseEffect does.
HasChangedTrueAsFalse(e, fs, ch) ==
    CASE e.kind = "true"  -> Ok(FALSE)
      [] e.kind = "false" -> Ok(FALSE)
      [] e.kind = "file"  -> FileHasChanged(fs[e.path], GetFile(ch, e.path))

\* Effect::has_changed, dispatched on the concrete effect.
HasChanged(e, fs, ch) ==
    CASE e.kind = "true"  -> Ok(TRUE)
      [] e.kind = "false" -> Ok(FALSE)
      [] e.kind = "file"  -> FileHasChanged(fs[e.path], GetFile(ch, e.path))

\* The cache directory after has_changed of effect e: File::has_changed
\* calls get_file once the artifact is known to exist.
DirAfterHasChanged(e, fs, ch) ==
    IF e.kind = "file" /\ fs[e.path] # NoFile
    THEN GetFile(ch, e.path).cache
    ELSE ch

\* How the writes of update_file can end: both succeed, File::create
\* fails, or the file is created (and so truncated) and the write fails.
IoOutcomes ==
    {"ok", "create_fails", "write_fails"}

\* Cache::update_file writing the seconds only.
UpdateFileSecondsOnly(ch, path, entry, io) ==
    CASE io = "create_fails" -> [err |-> TRUE, cache |-> ch]
      [] io = "write_fails"  ->
            [err |-> TRUE, cache |-> [ch EXCEPT ![hash(path)] = Corrupt]]
      [] io = "ok"           ->
            [err |-> FALSE,
             cache |-> [ch EXCEPT ![hash(path)] = << entry[1], 0 >>]]

\* Cache::update_file: File::create on the entry file of the path, then
\* serde_json::to_writer.  The directory afterwards holds, for the path,
\* what the written text reads back as.
UpdateFile(ch, path, entry, io) ==
    CASE io = "create_fails" -> [err |-> TRUE, cache |-> ch]
      [] io = "write_fails"  ->
            [err |-> TRUE,
             cache |-> [ch EXCEPT ![hash(path)] = FromReader(<< >>)]]
      [] io = "ok"           ->
            [err |-> FALSE,
             cache |-> [ch EXCEPT ![hash(path)] = FromReader(ToWriter(entry))]]

\* File::commit_change: fails when the artifact is missing, otherwise
\* stores the current modification time under the artifact's path.
FileCommitChange(path, fs, ch, io) ==
    IF fs[path] = NoFile THEN [err |-> TRUE, cache |-> ch]
    ELSE UpdateFile(ch, path, fs[path], io)

\* File::commit_change under dry_run = true: the same validation, no write.
FileCommitChangeDry(path, fs, ch) ==
    [err |-> fs[path] = NoFile, cache |-> ch]

\* Effect::commit_change(dry_run) not looking at dry_run.
CommitChangeIgnoresDry(e, dry, fs, ch, io) ==
    CASE e.kind = "true"  -> [err |-> FALSE, cache |-> ch]
      [] e.kind = "false" -> [err |-> FALSE, cache |-> ch]
      [] e.kind = "file"  -> FileCommitChange(e.path, fs, ch, "ok")

\* Effect::commit_change(dry_run), dispatched on the concrete effect.
CommitChange(e, dry, fs, ch, io) ==
    CASE e.kind = "true"  -> [err |-> FALSE, cache |-> ch]
      [] e.kind = "false" -> [err |-> FALSE, cache |-> ch]
      [] e.kind = "file"  -> IF dry THEN FileCommitChangeDry(e.path, fs, ch)
                             ELSE FileCommitChange(e.path, fs, ch, io)

\* The outcome io of the cache write can be told apart from "ok" only
\* when commit_change of e gets as far as update_file.
WritesEntry(e, dry, fs) ==
    e.kind = "file" /\ ~dry /\ fs[e.path] # NoFile

\* ----------------------------------------------------------------------
\* Target graphs built by installer scripts
\* ----------------------------------------------------------------------

\* A chain: T depends on all of A, A on all of H.
ChainGraph ==
    [ targets |-> {"H", "A", "T"},
      roots   |-> {"H", "T"},
      effects |-> [ H |-> << File("h", "h") >>,
                    A |-> << File("a", "a") >>,
                    T |-> << FalseEffect >> ],
      deps    |-> [ H |-> << >>,
                    A |-> << view("H") >>,
                    T |-> << view("A") >> ] ]

\* A diamond: R depends on A and B, which both depend on D.
DiamondGraph ==
    [ targets |-> {"D", "A", "B", "R"},
      roots   |-> {"R"},
      effects |-> [ D |-> << File("d", "d") >>,
                    A |-> << TrueEffect >>,
                    B |-> << TrueEffect, FalseEffect >>,
                    R |-> << FalseEffect >> ],
      deps    |-> [ D |-> << >>,
                    A |-> << view("D") >>,
                    B |-> << view("D") >>,
                    R |-> << view("A"),
                             add_filter(view("B"), FilterDeny(<< "<true>" >>)) >> ] ]

\* A filtered dependency: A owns x and y, B depends on effect x of A only.
FilterGraph ==
    [ targets |-> {"A", "B"},
      roots   |-> {"B"},
      effects |-> [ A |-> << File("x", "x"), File("y", "y") >>,
                    B |-> << FalseEffect >> ],
      deps    |-> [ A |-> << >>,
                    B |-> << view_names("A", << "x" >>) >> ] ]

\* The same filtered dependency, where A itself depends on an always
\* changed effect of S.
StaleFilterGraph ==
    [ targets |-> {"S", "A", "B"},
      roots   |-> {"B"},
      effects |-> [ S |-> << TrueEffect >>,
                    A |-> << File("x", "x"), File("y", "y") >>,
                    B |-> << FalseEffect >> ],
      deps    |-> [ S |-> << >>,
                    A |-> << view("S") >>,
                    B |-> << view_names("A", << "x" >>) >> ] ]

\* A cycle: P depends on the leaf L and on Q, and Q depends on P.
CycleGraph ==
    [ targets |-> {"L", "P", "Q"},
      roots   |-> {"P"},
      effects |-> [ L |-> << TrueEffect >>,
                    P |-> << FalseEffect >>,
                    Q |-> << FalseEffect >> ],
      deps    |-> [ L |-> << >>,
                    P |-> << view("L"), view("Q") >>,
                    Q |-> << view("P") >> ] ]

\* One view that shows two effects: B depends on all of A, whose first
\* effect always reports a change and whose second never does.
PairGraph ==
    [ targets |-> {"A", "B"},
      roots   |-> {"B"},
      effects |-> [ A |-> << TrueEffect, FalseEffect >>,
                    B |-> << FalseEffect >> ],
      deps    |-> [ A |-> << >>,
                    B |-> << view("A") >> ] ]

GraphNames ==
    {"chain", "diamond", "filter", "stalefilter", "cycle", "pair"}

Graph(g) ==
    CASE g = "chain"       -> ChainGraph
      [] g = "diamond"     -> DiamondGraph
      [] g = "filter"      -> FilterGraph
      [] g = "stalefilter" -> StaleFilterGraph
      [] g = "cycle"       -> CycleGraph
      [] g = "pair"        -> PairGraph

\* Target::deps and Target::effects of target t in the current graph.
Deps(t) ==
    Graph(graph).deps[t]

Effects(t) ==
    Graph(graph).effects[t]

Targets ==
    Graph(graph).targets

\* Artifact paths of the file effects of graph g.
PathsOf(g) ==
    UNION { { Graph(g).effects[t][i].path : i \in DOMAIN Graph(g).effects[t] } :
            t \in Graph(g).targets } \ {""}

\* ----------------------------------------------------------------------
\* The traversal: Target::make, Target::build_deps, Target::commit
\* ----------------------------------------------------------------------

\* An activation of make whose build_deps starts from `outdated = true`
\* instead of `outdated = force`.
FrameOutdated(t, f, ch) ==
    [target |-> t, pc |-> "deps", vi |-> 1, ei |-> 0, outdated |-> TRUE,
     entry |-> ch]

\* One activation of Target::make.  pc is the position inside it:
\*   "deps"   at the head of build_deps' loop over deps(), view number vi
\*   "view"   inside the loop over the effects of view vi; ei is the
\*            position of the view's iterator
\*   "commit" inside Target::commit, about to commit own effect number ei
\* entry is the cache as it was when make was called.
Frame(t, f, ch) ==
    [target |-> t, pc |-> "deps", vi |-> 1, ei |-> 0, outdated |-> f,
     entry |-> ch]

\* One logged call.  t is the target the call is made for (for has_changed
\* the consumer running build_deps), o the owner of effect e.
Event(ev, t, o, e, ok, res) ==
    [ev |-> ev, t |-> t, o |-> o, e |-> e, ok |-> ok, res |-> res]

NoResult ==
    [kind |-> "None", name |-> ""]

\* What is remembered of the run before: its arguments and result,
\* whether it invoked a build, whether it left cache and artifacts as it
\* found them, and whether an artifact was changed from outside since.
NoPrev ==
    [force |-> FALSE, dryRun |-> FALSE, result |-> NoResult,
     built |-> FALSE, clean |-> TRUE, changed |-> FALSE]

Top ==
    stack[Len(stack)]

SetTop(f) ==
    [stack EXCEPT ![Len(stack)] = f]

\* No call has been made on a cache used on its own.  Of a call are kept
\* its arguments and result and, when update_file failed, what the entry
\* file of the path read as before it.
NoCall ==
    [op |-> "none", path |-> "", entry |-> NoEntry, io |-> "ok",
     err |-> FALSE, some |-> FALSE, before |-> NoEntry]

NoPut ==
    [entry |-> NoEntry, over |-> FALSE]

\* Of a call of Cache::new are kept its argument and result, the disk
\* before it and the directory content before and after it.
NewRecord(called, create_path, kind, fs, before, after) ==
    [called |-> called, create |-> create_path, kind |-> kind, fs |-> fs,
     before |-> before, after |-> after]

\* The cache variables while the engine runs or a view is iterated: the
\* installer has opened the cache directory, which exists.
CacheIdle ==
    /\ cLast = NoCall
    /\ cPut = << >>
    /\ cFs = [i \in 1 .. CacheDirDepth |-> "dir"]
    /\ cNew = NewRecord(TRUE, TRUE, "Ok", cFs,
                        [p \in PathsOf(graph) |-> NoEntry],
                        [p \in PathsOf(graph) |-> NoEntry])

\* The CargoTarget variables while no CargoTarget is used on its own.
CargoIdle ==
    /\ cgRoot = << >>
    /\ cgFiles = << >>
    /\ cgBuilder = FALSE
    /\ cgTarget = FALSE
    /\ cgLast = FALSE

\* The Builder variables while no Builder is used on its own.
InstallerIdle ==
    /\ bldr = FALSE
    /\ bldrLast = FALSE
    /\ installer = FALSE

\* The view variables while the engine runs: no view is iterated on its own.
ViewIdle ==
    /\ vEffects = << >>
    /\ vFilters = << >>
    /\ vKind = "ref"
    /\ vPos = 0
    /\ vOut = << >>
    /\ vDone = TRUE

Init ==
    /\ graph \in GraphNames
    /\ \E st \in [PathsOf(graph) -> InitPairs] :
          /\ mtime = [p \in PathsOf(graph) |-> st[p][1]]
          /\ cache = [p \in PathsOf(graph) |-> st[p][2]]
    /\ clock = 0
    /\ phase = "idle"
    /\ run = 0
    /\ root \in Graph(graph).roots
    /\ force = FALSE
    /\ dryRun = FALSE
    /\ stack = << >>
    /\ result = NoResult
    /\ log = << >>
    /\ cache0 = cache
    /\ mtime0 = mtime
    /\ prev = NoPrev
    /\ abortedAt = << >>
    /\ ViewIdle
    /\ CacheIdle
    /\ CargoIdle
    /\ InstallerIdle

\* What may have happened to the artifacts, outside the engine, since the
\* last run ended: nothing, or one artifact rewritten.
ExternalChanges ==
    { [path |-> ""] } \cup [path : PathsOf(graph)]

\* The filesystem fs after external change x, a rewrite being stamped now.
Changed(fs, x, now) ==
    IF x.path = "" THEN fs
    ELSE [fs EXCEPT ![x.path] = now]

\* The installer is started and calls make(os, arch, force, dry_run) on a
\* root target; x is what happened to the artifacts since the last run.
StartRun(f, d, x) ==
    /\ phase = "idle"
    /\ run < MaxRuns
    /\ run = 0 => x.path = ""
    /\ mtime' = Changed(mtime, x, TimeOf(clock + 1))
    /\ x.path # "" => mtime' # mtime
    /\ phase' = "running"
    /\ run' = run + 1
    /\ force' = f
    /\ dryRun' = d
    /\ stack' = << Frame(root, f, cache) >>
    /\ result' = NoResult
    /\ log' = << Event("make", root, "", "", TRUE, FALSE) >>
    /\ cache0' = cache
    /\ mtime0' = mtime'
    /\ prev' = [force |-> force, dryRun |-> dryRun, result |-> result,
                built |-> (\E i \in DOMAIN log : log[i].ev = "build"),
                clean |-> (cache = cache0 /\ mtime = mtime0),
                changed |-> (x.path # "")]
    /\ abortedAt' = << >>
    /\ clock' = clock + 2
    /\ UNCHANGED << graph, root, cache >>
    /\ UNCHANGED << viewVars, cacheVars, cargoVars, installerVars >>

\* A make that, having done everything, does not hand control back to its
\* caller.
ReturnStays(l) ==
    /\ log' = l
    /\ UNCHANGED << stack, phase, result, abortedAt >>

\* make returns Ok(()): the frame is popped; the caller is build_deps of
\* the frame below, which goes on to iterate the view it just made.
Return(l) ==
    /\ log' = l
    /\ IF Len(stack) = 1
       THEN /\ stack' = << >>
            /\ phase' = "idle"
            /\ result' = [kind |-> "Ok", name |-> ""]
       ELSE /\ stack' = [ SubSeq(stack, 1, Len(stack) - 1)
                            EXCEPT ![Len(stack) - 1].pc = "view",
                                   ![Len(stack) - 1].ei = 0 ]
            /\ UNCHANGED << phase, result >>
    /\ UNCHANGED abortedAt

\* An Err that ends the make it arises in only: the build_deps that
\* called that make drops it and goes on with the view.
AbortCalleeOnly(kind, name, l) ==
    /\ log' = l
    /\ abortedAt' = stack
    /\ IF Len(stack) = 1
       THEN /\ stack' = << >>
            /\ phase' = "idle"
            /\ result' = [kind |-> kind, name |-> name]
       ELSE /\ stack' = [ SubSeq(stack, 1, Len(stack) - 1)
                            EXCEPT ![Len(stack) - 1].pc = "view",
                                   ![Len(stack) - 1].ei = 0 ]
            /\ UNCHANGED << phase, result >>

\* An Err is returned through every `?` up to the top-level caller.
Abort(kind, name, l) ==
    /\ log' = l
    /\ stack' = << >>
    /\ phase' = "idle"
    /\ result' = [kind |-> kind, name |-> name]
    /\ abortedAt' = stack

\* The force and dry_run arguments of make handed to the make of a
\* dependency in each other's place.
MakeArgsSwapped(f, d) ==
    [force |-> d, dry_run |-> f]

\* The force and dry_run arguments that build_deps, called with f and d,
\* hands to the make of a dependency.
MakeArgs(f, d) ==
    [force |-> f, dry_run |-> d]

\* build_deps: `view.target.make(os, arch, force, dry_run)?` for view vi.
MakeDep ==
    /\ phase = "running"
    /\ Top.pc = "deps"
    /\ Top.vi <= Len(Deps(Top.target))
    /\ Len(stack) < MaxDepth
    /\ LET t == Deps(Top.target)[Top.vi].target IN
         /\ stack' = Append(stack,
                            Frame(t, MakeArgs(force, dryRun).force, cache))
         /\ log' = Append(log, Event("make", t, "", "", TRUE, FALSE))
    /\ UNCHANGED << graph, mtime, cache, clock, phase, run, root, force,
                    dryRun, result, cache0, mtime0, prev, abortedAt >>
    /\ UNCHANGED << viewVars, cacheVars, cargoVars, installerVars >>

\* build_deps: the same call when the stack has no room for another
\* activation: the process is killed, which ends the run without a
\* TargetError.
StackOverflow ==
    /\ phase = "running"
    /\ Top.pc = "deps"
    /\ Top.vi <= Len(Deps(Top.target))
    /\ Len(stack) >= MaxDepth
    /\ LET t == Deps(Top.target)[Top.vi].target IN
         Abort("StackOverflow", t,
               Append(log, Event("make", t, "", "", FALSE, FALSE)))
    /\ UNCHANGED << graph, mtime, cache, clock, run, root, force, dryRun,
                    cache0, mtime0, prev >>
    /\ UNCHANGED << viewVars, cacheVars, cargoVars, installerVars >>

\* build_deps leaving `for effect in view` as soon as outdated is true:
\* has_changed is called only while it is still false.
CheckEffectShortCircuit ==
    /\ phase = "running"
    /\ Top.pc = "view"
    /\ LET v    == Deps(Top.target)[Top.vi]
           nx   == IterNext(Effects(v.target), v.filters, Top.ei)
       IN /\ nx.item # 0
          /\ IF Top.outdated
             THEN /\ stack' = SetTop([Top EXCEPT !.pc = "deps",
                                                 !.vi = Top.vi + 1,
                                                 !.ei = 0])
                  /\ UNCHANGED << cache, log, phase, result, abortedAt >>
             ELSE LET e == Effects(v.target)[nx.item]
                      r == HasChanged(e, mtime, cache)
                      l == Append(log, Event("has_changed", Top.target,
                                             v.target, e.name, ~r.err, r.val))
                  IN /\ cache' = DirAfterHasChanged(e, mtime, cache)
                     /\ IF r.err
                        THEN Abort("HasChangedError", e.name, l)
                        ELSE /\ stack' = SetTop([Top EXCEPT
                                                   !.ei = nx.pos,
                                                   !.outdated = r.val])
                             /\ log' = l
                             /\ UNCHANGED << phase, result, abortedAt >>
    /\ UNCHANGED << graph, mtime, clock, run, root, force, dryRun,
                    cache0, mtime0, prev >>
    /\ UNCHANGED << viewVars, cacheVars, cargoVars, installerVars >>

\* build_deps: one turn of `for effect in view`, with
\* `outdated |= effect.has_changed()`, or HasChangedError.
CheckEffect ==
    /\ phase = "running"
    /\ Top.pc = "view"
    /\ LET v    == Deps(Top.target)[Top.vi]
           nx   == IterNext(Effects(v.target), v.filters, Top.ei)
       IN /\ nx.item # 0
          /\ LET e == Effects(v.target)[nx.item]
                 r == HasChanged(e, mtime, cache)
                 l == Append(log, Event("has_changed", Top.target, v.target,
                                        e.name, ~r.err, r.val))
             IN /\ cache' = DirAfterHasChanged(e, mtime, cache)
                /\ IF r.err
                   THEN Abort("HasChangedError", e.name, l)
                   ELSE /\ stack' = SetTop([Top EXCEPT
                                               !.ei = nx.pos,
                                               !.outdated = Top.outdated \/ r.val])
                        /\ log' = l
                        /\ UNCHANGED << phase, result, abortedAt >>
    /\ UNCHANGED << graph, mtime, clock, run, root, force, dryRun,
                    cache0, mtime0, prev >>
    /\ UNCHANGED << viewVars, cacheVars, cargoVars, installerVars >>

\* build_deps: the view's iterator returns None; on to the next view.
ViewDone ==
    /\ phase = "running"
    /\ Top.pc = "view"
    /\ LET v  == Deps(Top.target)[Top.vi]
           nx == IterNext(Effects(v.target), v.filters, Top.ei)
       IN /\ nx.item = 0
          /\ stack' = SetTop([Top EXCEPT !.pc = "deps", !.vi = Top.vi + 1,
                                         !.ei = 0])
    /\ UNCHANGED << graph, mtime, cache, clock, phase, run, root, force,
                    dryRun, result, log, cache0, mtime0, prev, abortedAt >>
    /\ UNCHANGED << viewVars, cacheVars, cargoVars, installerVars >>

\* make: build_deps returned Ok(false), so make returns Ok(()) at once.
SkipBuild ==
    /\ phase = "running"
    /\ Top.pc = "deps"
    /\ Top.vi > Len(Deps(Top.target))
    /\ ~Top.outdated
    /\ Return(log)
    /\ UNCHANGED << graph, mtime, cache, clock, run, root, force, dryRun,
                    cache0, mtime0, prev >>
    /\ UNCHANGED << viewVars, cacheVars, cargoVars, installerVars >>

\* What a concrete Target::build may do: fail, succeed leaving its
\* artifacts as they are, or succeed after writing them.  With dry_run it
\* executes nothing.
BuildOutcomes(dry) ==
    IF dry THEN {"fail", "keep"} ELSE {"fail", "keep", "write"}

\* The filesystem after build of target t wrote all its artifacts.
WriteArtifacts(t, fs, now) ==
    [ p \in DOMAIN fs |->
        IF \E i \in DOMAIN Effects(t) :
              Effects(t)[i].kind = "file" /\ Effects(t)[i].path = p
        THEN now ELSE fs[p] ]

\* make: build_deps returned Ok(true): `self.build(os, arch, dry_run)?`,
\* then Target::commit is entered.
Build(outcome) ==
    /\ phase = "running"
    /\ Top.pc = "deps"
    /\ Top.vi > Len(Deps(Top.target))
    /\ Top.outdated
    /\ outcome \in BuildOutcomes(dryRun)
    /\ LET t == Top.target
           l == Append(log, Event("build", t, "", "", outcome # "fail", FALSE))
       IN IF outcome = "fail"
          THEN /\ Abort("BuildError", t, l)
               /\ UNCHANGED mtime
          ELSE /\ mtime' = IF outcome = "write"
                             THEN WriteArtifacts(t, mtime, TimeOf(clock))
                             ELSE mtime
               /\ stack' = SetTop([Top EXCEPT !.pc = "commit", !.ei = 1])
               /\ log' = Append(l, Event("commit", t, "", "", TRUE, FALSE))
               /\ UNCHANGED << phase, result, abortedAt >>
    /\ UNCHANGED << graph, cache, clock, run, root, force, dryRun, cache0,
                    mtime0, prev >>
    /\ UNCHANGED << viewVars, cacheVars, cargoVars, installerVars >>

\* commit: `effect.commit_change(dry_run)` on own effect ei, or CommitError.
CommitEffect(io) ==
    /\ phase = "running"
    /\ Top.pc = "commit"
    /\ Top.ei <= Len(Effects(Top.target))
    /\ io # "ok" => WritesEntry(Effects(Top.target)[Top.ei], dryRun, mtime)
    /\ LET e == Effects(Top.target)[Top.ei]
           r == CommitChange(e, dryRun, mtime, cache, io)
           l == Append(log, Event("commit_change", Top.target, Top.target,
                                  e.name, ~r.err, FALSE))
       IN /\ cache' = r.cache
          /\ IF r.err
             THEN Abort("CommitError", e.name, l)
             ELSE /\ stack' = SetTop([Top EXCEPT !.ei = Top.ei + 1])
                  /\ log' = l
                  /\ UNCHANGED << phase, result, abortedAt >>
    /\ UNCHANGED << graph, mtime, clock, run, root, force, dryRun, cache0,
                    mtime0, prev >>
    /\ UNCHANGED << viewVars, cacheVars, cargoVars, installerVars >>

\* commit returns Ok(()), and with it make.
CommitDone ==
    /\ phase = "running"
    /\ Top.pc = "commit"
    /\ Top.ei > Len(Effects(Top.target))
    /\ Return(log)
    /\ UNCHANGED << graph, mtime, cache, clock, run, root, force, dryRun,
                    cache0, mtime0, prev >>
    /\ UNCHANGED << viewVars, cacheVars, cargoVars, installerVars >>

Next ==
    \/ \E f \in BOOLEAN, d \in BOOLEAN, x \in ExternalChanges :
          StartRun(f, d, x)
    \/ MakeDep
    \/ StackOverflow
    \/ CheckEffect
    \/ ViewDone
    \/ SkipBuild
    \/ \E o \in {"fail", "keep", "write"} : Build(o)
    \/ \E io \in IoOutcomes : CommitEffect(io)
    \/ CommitDone

Spec ==
    Init /\ [][Next]_vars

\* The same with the calls of one run made one after the other without
\* end: every build, has_changed and commit_change call returns, and the
\* thread that runs make is not stopped from outside.  The installer need
\* not start another run.  Running is the steps of Next inside a run.
Running ==
    /\ phase = "running"
    /\ \/ MakeDep
       \/ StackOverflow
       \/ CheckEffect
       \/ ViewDone
       \/ SkipBuild
       \/ \E o \in {"fail", "keep", "write"} : Build(o)
       \/ CommitEffect("create_fails")
       \/ CommitEffect("write_fails")
       \/ CommitEffect("ok")
       \/ CommitDone

FairSpec ==
    Spec /\ WF_vars(Running)

\* ----------------------------------------------------------------------
\* Iterating one EffectView on its own
\* ----------------------------------------------------------------------
EffectNames ==
    {"x", "y"}

\* Name lists given to Allow and Deny.
NameLists ==
    { << >>, << "x" >>, << "y" >>, << "x", "y" >>, << "y", "x" >>,
      << "x", "x" >> }

FilterChoices ==
    {FilterNone, FilterAll}
        \cup { FilterAllow(n) : n \in NameLists }
        \cup { FilterDeny(n) : n \in NameLists }

SeqsUpTo(S, n) ==
    UNION { [1 .. k -> S] : k \in 0 .. n }

\* The effects of a target whose effects carry the given names, in
\* insertion order; each is a file effect with an artifact of its own.
EffectsNamed(names) ==
    [ i \in DOMAIN names |-> File(names[i], << "p", i >>) ]

InitView ==
    /\ graph = "chain"
    /\ mtime = [p \in PathsOf(graph) |-> NoFile]
    /\ cache = [p \in PathsOf(graph) |-> NoEntry]
    /\ clock = 0
    /\ phase = "idle"
    /\ run = 0
    /\ root = "T"
    /\ force = FALSE
    /\ dryRun = FALSE
    /\ stack = << >>
    /\ result = NoResult
    /\ log = << >>
    /\ cache0 = cache
    /\ mtime0 = mtime
    /\ prev = NoPrev
    /\ abortedAt = << >>
    /\ \E names \in SeqsUpTo(EffectNames, MaxEffects) :
          vEffects = EffectsNamed(names)
    /\ vFilters \in SeqsUpTo(FilterChoices, MaxFilters)
    /\ vKind \in {"into", "ref"}
    /\ vPos = 0
    /\ vOut = << >>
    /\ vDone = FALSE
    /\ CacheIdle
    /\ CargoIdle
    /\ InstallerIdle

\* One call of next() on the iterator of the view; nx is what it returns.
NextCall(nx) ==
    /\ vPos' = nx.pos
    /\ vOut' = IF nx.item = 0 THEN vOut ELSE Append(vOut, vEffects[nx.item])
    /\ vDone' = (nx.item = 0)
    /\ UNCHANGED << vEffects, vFilters, vKind, engineVars, cacheVars,
                    cargoVars, installerVars >>

\* `for e in view` on a view taken by value.
IntoIterStep ==
    /\ vKind = "into"
    /\ ~vDone
    /\ NextCall(IntoIterNext(vEffects, vFilters, vPos))

\* `for e in &view`, or view.iter().
IterStep ==
    /\ vKind = "ref"
    /\ ~vDone
    /\ NextCall(IterNext(vEffects, vFilters, vPos))

NextView ==
    \/ IntoIterStep
    \/ IterStep

SpecView ==
    InitView /\ [][NextView]_vars

\* ----------------------------------------------------------------------
\* Using one Cache on its own
\* ----------------------------------------------------------------------

\* Entries handed to update_file: (seconds, nanoseconds) with seconds of
\* one and of two digits, before and after the epoch.
EntryValues ==
    { << secs, nano >> : secs \in {0 - MaxSecs, 0, 9},
                         nano \in 0 .. NanosPerSec - 1 }

InitCache ==
    /\ graph = "diamond"
    /\ mtime = [p \in PathsOf(graph) |-> NoFile]
    /\ cFs \in FsStates
    /\ cache \in [PathsOf(graph) -> IF PathIsDir(cFs)
                                    THEN {NoEntry, Corrupt, TimeOf(0)}
                                    ELSE {NoEntry}]
    /\ clock = 0
    /\ phase = "idle"
    /\ run = 0
    /\ root = "R"
    /\ force = FALSE
    /\ dryRun = FALSE
    /\ stack = << >>
    /\ result = NoResult
    /\ log = << >>
    /\ cache0 = cache
    /\ mtime0 = mtime
    /\ prev = NoPrev
    /\ abortedAt = << >>
    /\ ViewIdle
    /\ cLast = NoCall
    /\ cPut = [p \in PathsOf(graph) |-> NoPut]
    /\ cNew = NewRecord(FALSE, FALSE, "None", cFs, cache, cache)
    /\ CargoIdle
    /\ InstallerIdle

\* Cache::new(path, create_path)
NewCall(create_path) ==
    LET r == CacheNew(cFs, cache, create_path) IN
    /\ cFs' = r.fs
    /\ cache' = r.cache
    /\ cNew' = NewRecord(TRUE, create_path, r.kind, cFs, cache, r.cache)
    /\ UNCHANGED << cLast, cPut >>
    /\ UNCHANGED << graph, mtime, clock, phase, run, root, force, dryRun,
                    stack, result, log, cache0, mtime0, prev, abortedAt >>
    /\ UNCHANGED << viewVars, cargoVars, installerVars >>

\* cache.update_file(path, CacheEntry { last_edited: entry }), where the
\* writes end as io says.
UpdateFileCall(path, entry, io) ==
    LET r == UpdateFile(cache, path, entry, io) IN
    /\ cNew.kind = "Ok"
    /\ cache' = r.cache
    /\ cLast' = [op |-> "update_file", path |-> path, entry |-> entry,
                 io |-> io, err |-> r.err, some |-> FALSE,
                 before |-> IF r.err THEN cache[path] ELSE NoEntry]
    /\ cPut' = [cPut EXCEPT ![path] =
                  IF r.err THEN NoPut
                  ELSE [entry |-> entry,
                        over  |-> cache[path] \notin {NoEntry, Corrupt, entry}]]
    /\ UNCHANGED << cFs, cNew >>
    /\ UNCHANGED << graph, mtime, clock, phase, run, root, force, dryRun,
                    stack, result, log, cache0, mtime0, prev, abortedAt >>
    /\ UNCHANGED << viewVars, cargoVars, installerVars >>

\* cache.get_file(path)
GetFileCall(path) ==
    LET g == GetFile(cache, path) IN
    /\ cNew.kind = "Ok"
    /\ cache' = g.cache
    /\ cLast' = [op |-> "get_file", path |-> path, entry |-> g.entry,
                 io |-> "ok", err |-> g.err, some |-> g.some,
                 before |-> NoEntry]
    /\ UNCHANGED << cPut, cFs, cNew >>
    /\ UNCHANGED << graph, mtime, clock, phase, run, root, force, dryRun,
                    stack, result, log, cache0, mtime0, prev, abortedAt >>
    /\ UNCHANGED << viewVars, cargoVars, installerVars >>

NextCache ==
    \/ \E create_path \in BOOLEAN : NewCall(create_path)
    \/ \E path \in PathsOf(graph), entry \in EntryValues, io \in IoOutcomes :
          UpdateFileCall(path, entry, io)
    \/ \E path \in PathsOf(graph) : GetFileCall(path)

SpecCache ==
    InitCache /\ [][NextCache]_vars

\* ----------------------------------------------------------------------
\* CargoTarget: manifests, effect deduction, builder and build
\* ----------------------------------------------------------------------

\* toml::Value, as far as deduce_effects looks at it.  A table is a record
\* of its keys next to its type; a key that is not there holds TAbsent.
TAbsent ==
    [type |-> "absent"]

TString(s) ==
    [type |-> "string", str |-> s]

TInteger ==
    [type |-> "integer"]

TArray(items) ==
    [type |-> "array", items |-> items]

\* One [[bin]] entry, a [package] table and a [workspace] table.
TBin(name) ==
    [type |-> "table", name |-> name]

TPackage(name) ==
    [type |-> "table", name |-> name]

TWorkspace(members) ==
    [type |-> "table", members |-> members]

\* The top-level table of a manifest.
TManifest(bin, package, workspace) ==
    [type |-> "table", bin |-> bin, package |-> package,
     workspace |-> workspace]

\* Value::get / Map::get with a string key: None on anything but a table
\* that has the key.
Get(v, key) ==
    IF v.type = "table" /\ key \in DOMAIN v /\ v[key].type # "absent"
    THEN [some |-> TRUE, val |-> v[key]]
    ELSE [some |-> FALSE, val |-> TAbsent]

\* A Cargo.toml on disk: not there, there but not to be opened, opened but
\* not to be read, read but not TOML, or TOML with the given top level.
NoManifest ==
    [state |-> "missing", value |-> TAbsent]

\* A path the operating system refuses to look up because it is too long.
TooLongManifest ==
    [state |-> "toolong", value |-> TAbsent]

DeniedManifest ==
    [state |-> "denied", value |-> TAbsent]

UnreadableManifest ==
    [state |-> "unreadable", value |-> TAbsent]

GarbageManifest ==
    [state |-> "garbage", value |-> TAbsent]

Manifest(value) ==
    [state |-> "toml", value |-> value]

\* The directory the operating system reaches by the components of path
\* from component i on, standing in directory dir: "." stays, ".." goes
\* to the parent, a name goes down.  The first component is where the
\* installer runs from.
RECURSIVE Resolve(_, _, _)
Resolve(path, i, dir) ==
    IF i > Len(path) THEN dir
    ELSE IF path[i] = "." /\ dir # << >>
    THEN Resolve(path, i + 1, dir)
    ELSE IF path[i] = ".." /\ Len(dir) > 1
    THEN Resolve(path, i + 1, SubSeq(dir, 1, Len(dir) - 1))
    ELSE Resolve(path, i + 1, Append(dir, path[i]))

\* fs::File::open on the Cargo.toml of directory path in the tree files:
\* refused when the path is too long, else the file of the directory the
\* path leads to.
ManifestAt(files, path) ==
    IF Len(path) > MaxPath THEN TooLongManifest
    ELSE IF Resolve(path, 1, << >>) \in DOMAIN files
    THEN files[Resolve(path, 1, << >>)]
    ELSE NoManifest

\* CargoMode::to_build_dir
to_build_dir(mode) ==
    CASE mode = "Release" -> "release"
      [] mode = "Debug"   -> "debug"

\* Results of deduce_effects: the effects, or an error of some kind that
\* carries a path.
Deduced(effects) ==
    [ok |-> TRUE, kind |-> "Ok", path |-> << >>, effects |-> effects]

CargoError(kind, path) ==
    [ok |-> FALSE, kind |-> kind, path |-> path, effects |-> << >>]

\* deduce_effects, the Err arm of fs::File::open: MissingCargoToml with the
\* directory when the error is not NotFound, CargoTomlOpenError with the
\* path of the file when it is.
OpenError(state, path, cargo_path) ==
    IF state # "missing" THEN CargoError("MissingCargoToml", path)
    ELSE CargoError("CargoTomlOpenError", cargo_path)

\* deduce_effects, the loop over the [[bin]] entries from entry i on:
\* every entry must be a table with a string as name.
RECURSIVE BinNames(_, _, _, _)
BinNames(bins, i, names, cargo_path) ==
    IF i > Len(bins) THEN [ok |-> TRUE, names |-> names, err |-> TAbsent]
    ELSE IF bins[i].type # "table"
    THEN [ok |-> FALSE, names |-> << >>,
          err |-> CargoError("CargoTomlBinTypeError", cargo_path)]
    ELSE LET name == Get(bins[i], "name") IN
         IF ~name.some
         THEN [ok |-> FALSE, names |-> << >>,
               err |-> CargoError("CargoTomlMissingName", cargo_path)]
         ELSE IF name.val.type # "string"
         THEN [ok |-> FALSE, names |-> << >>,
               err |-> CargoError("CargoTomlNameTypeError", cargo_path)]
         ELSE BinNames(bins, i + 1, Append(names, name.val.str), cargo_path)

\* deduce_effects, `let names`: the names of the [[bin]]s if there is a
\* bin key, else the name of the [package] if there is one, else none.
OwnNames(table, cargo_path) ==
    LET bins    == Get(table, "bin")
        package == Get(table, "package")
    IN IF bins.some
       THEN IF bins.val.type # "array"
            THEN [ok |-> FALSE, names |-> << >>,
                  err |-> CargoError("CargoTomlBinsTypeError", cargo_path)]
            ELSE BinNames(bins.val.items, 1, << >>, cargo_path)
       ELSE IF package.some
       THEN LET name == Get(package.val, "name") IN
            IF ~name.some
            THEN [ok |-> FALSE, names |-> << >>,
                  err |-> CargoError("CargoTomlMissingName", cargo_path)]
            ELSE IF name.val.type # "string"
            THEN [ok |-> FALSE, names |-> << >>,
                  err |-> CargoError("CargoTomlNameTypeError", cargo_path)]
            ELSE [ok |-> TRUE, names |-> << name.val.str >>, err |-> TAbsent]
       ELSE [ok |-> TRUE, names |-> << >>, err |-> TAbsent]

\* deduce_effects, the artifact of binary n:
\* PathBuf::from("./target").join(mode.to_build_dir()).join(&n).
ArtifactPath(path, mode, n) ==
    << ".", "target", to_build_dir(mode), n >>

\* deduce_effects, `names.into_iter().map(..)`: one File effect per name,
\* called <target>_<name>.
NameEffects(name, path, mode, names) ==
    [ i \in DOMAIN names |->
        File(name \o "_" \o names[i], ArtifactPath(path, mode, names[i])) ]

\* deduce_effects, the members of [workspace] from member i on: every
\* member must be a string.
RECURSIVE MemberNames(_, _, _, _)
MemberNames(members, i, smembers, cargo_path) ==
    IF i > Len(members) THEN [ok |-> TRUE, names |-> smembers, err |-> TAbsent]
    ELSE IF members[i].type # "string"
    THEN [ok |-> FALSE, names |-> << >>,
          err |-> CargoError("CargoTomlMemberTypeError", cargo_path)]
    ELSE MemberNames(members, i + 1, Append(smembers, members[i].str),
                     cargo_path)

RECURSIVE deduce_effects(_, _, _, _)
RECURSIVE Recurse(_, _, _, _, _, _, _)

\* deduce_effects, `for m in smembers`: appends to res what deduce_effects
\* returns for path.join(m), or returns its error.
Recurse(name, path, mode, files, smembers, i, res) ==
    IF i > Len(smembers) THEN Deduced(res)
    ELSE LET r == deduce_effects(name, path \o << smembers[i] >>, mode, files)
         IN IF ~r.ok THEN r
            ELSE Recurse(name, path, mode, files, smembers, i + 1,
                         res \o r.effects)

\* deduce_effects, the end of the function: an empty result is an error.
NonEmpty(r, cargo_path) ==
    IF r.ok /\ r.effects = << >>
    THEN CargoError("CargoTomlEffectsDeduceError", cargo_path)
    ELSE r

\* deduce_effects giving back what the members returned ahead of the
\* manifest's own effects.
WithMembersFirst(name, path, mode, files, table, own, cargo_path) ==
    LET workspace == Get(table, "workspace") IN
    IF ~workspace.some THEN Deduced(own)
    ELSE LET members == Get(workspace.val, "members") IN
         IF ~members.some
         THEN CargoError("CargoTomlMissingMembers", cargo_path)
         ELSE IF members.val.type # "array"
         THEN CargoError("CargoTomlMembersTypeError", cargo_path)
         ELSE LET s == MemberNames(members.val.items, 1, << >>, cargo_path)
              IN IF ~s.ok THEN s.err
                 ELSE LET r == Recurse(name, path, mode, files, s.names, 1,
                                       << >>)
                      IN IF ~r.ok THEN r ELSE Deduced(r.effects \o own)

\* deduce_effects, `if let Some(workspace)`: the own effects followed by
\* those of the members of the workspace, in their order.
WithMembers(name, path, mode, files, table, own, cargo_path) ==
    LET workspace == Get(table, "workspace") IN
    IF ~workspace.some THEN Deduced(own)
    ELSE LET members == Get(workspace.val, "members") IN
         IF ~members.some
         THEN CargoError("CargoTomlMissingMembers", cargo_path)
         ELSE IF members.val.type # "array"
         THEN CargoError("CargoTomlMembersTypeError", cargo_path)
         ELSE LET s == MemberNames(members.val.items, 1, << >>, cargo_path)
              IN IF ~s.ok THEN s.err
                 ELSE Recurse(name, path, mode, files, s.names, 1, own)

\* CargoTarget::deduce_effects(name, path, mode, cache) over the manifests
\* in files.
deduce_effects(name, path, mode, files) ==
    LET cargo_path == path \o << "Cargo.toml" >>
        file       == ManifestAt(files, path)
    IN IF file.state \in {"missing", "denied", "toolong"}
       THEN OpenError(file.state, path, cargo_path)
       ELSE IF file.state = "unreadable"
       THEN CargoError("CargoTomlReadError", cargo_path)
       ELSE IF file.state = "garbage"
       THEN CargoError("CargoTomlParseError", cargo_path)
       ELSE IF file.value.type # "table"
       THEN CargoError("CargoTomlNotATable", cargo_path)
       ELSE LET own == OwnNames(file.value, cargo_path) IN
            IF ~own.ok THEN own.err
            ELSE NonEmpty(
                   WithMembers(name, path, mode, files, file.value,
                               NameEffects(name, path, mode, own.names),
                               cargo_path),
                   cargo_path)

\* Architecture and OperatingSystem.
Architectures ==
    {"x86_32", "x86_64", "Aarch32", "Aarch64", "PowerPc32", "PowerPc64",
     "Mips", "Custom"}

OperatingSystems ==
    {"Windows", "MacOs", "Linux", "Custom"}

\* CargoTarget::build, `let arch` with the two ARM fragments exchanged.
ArchFragmentArmSwapped(arch) ==
    CASE arch = "x86_32"    -> "i686"
      [] arch = "x86_64"    -> "x86_64"
      [] arch = "Aarch32"   -> "aarch64"
      [] arch = "Aarch64"   -> "arm"
      [] arch = "PowerPc32" -> "powerpc"
      [] arch = "PowerPc64" -> "powerpc64"
      [] arch = "Mips"      -> "mips"

\* CargoTarget::build, `let arch`: the architecture as cargo calls it.
ArchFragment(arch) ==
    CASE arch = "x86_32"    -> "i686"
      [] arch = "x86_64"    -> "x86_64"
      [] arch = "Aarch32"   -> "arm"
      [] arch = "Aarch64"   -> "aarch64"
      [] arch = "PowerPc32" -> "powerpc"
      [] arch = "PowerPc64" -> "powerpc64"
      [] arch = "Mips"      -> "mips"

\* CargoTarget::build, `let target`: the target triple for the OS.
TargetTriple(os, fragment) ==
    CASE os = "Windows" -> fragment \o "-pc-windows-msvc"
      [] os = "MacOs"   -> fragment \o "-apple-darwin"
      [] os = "Linux"   -> fragment \o "-unknown-linux-gnu"

\* CargoTarget::build(os, arch, dry_run): panics on a Custom architecture,
\* then on a Custom operating system; otherwise computes the triple and
\* returns Ok(()).  No command is run on any path.
CargoTargetBuild(os, arch, dry_run) ==
    IF arch = "Custom"
    THEN [outcome |-> "panic", triple |-> "", commands |-> << >>]
    ELSE IF os = "Custom"
    THEN [outcome |-> "panic", triple |-> "", commands |-> << >>]
    ELSE [outcome |-> "Ok", triple |-> TargetTriple(os, ArchFragment(arch)),
          commands |-> << >>]

\* CargoTargetBuilder::new(name): no effects given, no path, release mode.
NewBuilder(name) ==
    [live |-> TRUE, name |-> name,
     effects |-> [some |-> FALSE, items |-> << >>],
     path |-> [some |-> FALSE, val |-> << >>],
     mode |-> "Release"]

\* The builder after build(self, ..) has consumed it.
ConsumedBuilder ==
    [live |-> FALSE, name |-> "",
     effects |-> [some |-> FALSE, items |-> << >>],
     path |-> [some |-> FALSE, val |-> << >>],
     mode |-> "Release"]

\* CargoTargetBuilder::effects: sets the list, or appends to it.
WithEffects(b, new_effects) ==
    [b EXCEPT !.effects = [some |-> TRUE,
                           items |-> b.effects.items \o new_effects]]

\* No CargoTarget has been built, and none has been asked to build.
NoTarget ==
    [state |-> "None", error |-> CargoError("None", << >>), name |-> "",
     deduced |-> FALSE, effects |-> << >>, path |-> << >>,
     mode |-> "Release"]

NoBuildCall ==
    [called |-> FALSE, os |-> "Linux", arch |-> "x86_64", dry_run |-> FALSE,
     outcome |-> "None", triple |-> "", commands |-> << >>]

\* CargoTargetBuilder::build(self, cache) over the manifests in files:
\* panics without a path; takes the effects given, or deduces them.
CargoTargetBuilderBuild(b, files) ==
    IF ~b.path.some
    THEN [NoTarget EXCEPT !.state = "panic"]
    ELSE IF b.effects.some
    THEN [state |-> "Ok", error |-> CargoError("None", << >>),
          name |-> b.name, deduced |-> FALSE, effects |-> b.effects.items,
          path |-> b.path.val, mode |-> b.mode]
    ELSE LET r == deduce_effects(b.name, b.path.val, b.mode, files) IN
         [state |-> IF r.ok THEN "Ok" ELSE "Err",
          error |-> IF r.ok THEN CargoError("None", << >>) ELSE r,
          name |-> b.name, deduced |-> TRUE, effects |-> r.effects,
          path |-> b.path.val, mode |-> b.mode]

\* The directories the installer script may hand to path().
RootDirs ==
    { << "." >>, << "proj" >> }

\* Manifests of a package or workspace root without members that deduction
\* meets: unusable files, and tables with and without [[bin]], [package]
\* and [workspace], well and badly typed.
BinA ==
    TBin(TString("a"))

BinB ==
    TBin(TString("b"))

PackageA ==
    TPackage(TString("a"))

LoneManifests ==
    { NoManifest, DeniedManifest, UnreadableManifest, GarbageManifest,
      Manifest(TManifest(TAbsent, TAbsent, TAbsent)),
      Manifest(TManifest(TAbsent, PackageA, TAbsent)),
      Manifest(TManifest(TArray(<< BinA, BinB >>), TAbsent, TAbsent)),
      Manifest(TManifest(TArray(<< BinA, BinA >>), TAbsent, TAbsent)),
      Manifest(TManifest(TArray(<< BinB >>), PackageA, TAbsent)),
      Manifest(TManifest(TArray(<< >>), TAbsent, TAbsent)),
      Manifest(TManifest(TString("a"), TAbsent, TAbsent)),
      Manifest(TManifest(TArray(<< TInteger >>), TAbsent, TAbsent)),
      Manifest(TManifest(TArray(<< TBin(TInteger) >>), TAbsent, TAbsent)),
      Manifest(TManifest(TArray(<< TBin(TAbsent) >>), TAbsent, TAbsent)),
      Manifest(TManifest(TAbsent, TPackage(TAbsent), TAbsent)),
      Manifest(TManifest(TAbsent, TPackage(TInteger), TAbsent)),
      Manifest(TManifest(TAbsent, TInteger, TAbsent)),
      Manifest(TManifest(TAbsent, TAbsent, TWorkspace(TAbsent))),
      Manifest(TManifest(TAbsent, TAbsent, TWorkspace(TInteger))),
      Manifest(TManifest(TAbsent, TAbsent,
                         TWorkspace(TArray(<< TInteger >>)))) }

\* Manifests of a workspace root with the members p and q, with and
\* without a package of its own.
MembersPQ ==
    TWorkspace(TArray(<< TString("p"), TString("q") >>))

WorkspaceManifests ==
    { Manifest(TManifest(TAbsent, TAbsent, MembersPQ)),
      Manifest(TManifest(TAbsent, PackageA, MembersPQ)) }

\* Manifests of member p: one that is itself a workspace with member q,
\* and others; of member q; and of p's member q.
NestedManifest ==
    Manifest(TManifest(TAbsent, TPackage(TString("p")),
                       TWorkspace(TArray(<< TString("q") >>))))

ManifestsOfP ==
    { NoManifest,
      Manifest(TManifest(TAbsent, TAbsent, TAbsent)),
      Manifest(TManifest(TAbsent, PackageA, TAbsent)),
      Manifest(TManifest(TArray(<< BinB >>), TAbsent, TAbsent)),
      NestedManifest }

ManifestsOfQ ==
    { GarbageManifest,
      Manifest(TManifest(TAbsent, TAbsent, TAbsent)),
      Manifest(TManifest(TAbsent, PackageA, TAbsent)),
      Manifest(TManifest(TArray(<< TBin(TString("c")) >>), TAbsent, TAbsent)) }

ManifestsOfPQ ==
    { Manifest(TManifest(TAbsent, TAbsent, TAbsent)),
      Manifest(TManifest(TAbsent, TPackage(TString("n")), TAbsent)) }

\* The directory trees under root r: a lone manifest, or a workspace with
\* its members.  A directory no workspace lists has no manifest.
Trees(r) ==
    { [d \in {r} |-> m] : m \in LoneManifests }
      \cup
    { (r :> w) @@ (r \o << "p" >> :> p) @@ (r \o << "q" >> :> q)
          @@ (r \o << "p", "q" >> :> n) :
        w \in WorkspaceManifests, p \in ManifestsOfP \ {NestedManifest},
        q \in ManifestsOfQ, n \in {NoManifest} }
      \cup
    { (r :> w) @@ (r \o << "p" >> :> NestedManifest) @@ (r \o << "q" >> :> q)
          @@ (r \o << "p", "q" >> :> n) :
        w \in WorkspaceManifests, q \in ManifestsOfQ, n \in ManifestsOfPQ }

\* Effects an installer script hands to effect() and effects().
GivenEffects ==
    {TrueEffect, FalseEffect}

\* The engine variables while a CargoTarget is used on its own.
EngineIdle ==
    /\ graph = "chain"
    /\ mtime = [p \in PathsOf(graph) |-> NoFile]
    /\ cache = [p \in PathsOf(graph) |-> NoEntry]
    /\ clock = 0
    /\ phase = "idle"
    /\ run = 0
    /\ root = "T"
    /\ force = FALSE
    /\ dryRun = FALSE
    /\ stack = << >>
    /\ result = NoResult
    /\ log = << >>
    /\ cache0 = cache
    /\ mtime0 = mtime
    /\ prev = NoPrev
    /\ abortedAt = << >>

InitCargo ==
    /\ EngineIdle
    /\ ViewIdle
    /\ CacheIdle
    /\ cgRoot \in RootDirs
    /\ cgFiles \in Trees(cgRoot)
    /\ cgBuilder = NewBuilder("t")
    /\ cgTarget = NoTarget
    /\ cgLast = NoBuildCall
    /\ InstallerIdle

\* builder.path(path)
PathCall(path) ==
    /\ cgBuilder.live
    /\ cgBuilder' = [cgBuilder EXCEPT !.path = [some |-> TRUE, val |-> path]]
    /\ UNCHANGED << cgRoot, cgFiles, cgTarget, cgLast >>
    /\ UNCHANGED << engineVars, viewVars, cacheVars, installerVars >>

\* builder.mode(mode)
ModeCall(mode) ==
    /\ cgBuilder.live
    /\ cgBuilder' = [cgBuilder EXCEPT !.mode = mode]
    /\ UNCHANGED << cgRoot, cgFiles, cgTarget, cgLast >>
    /\ UNCHANGED << engineVars, viewVars, cacheVars, installerVars >>

\* builder.effect(effect)
EffectCall(effect) ==
    /\ cgBuilder.live
    /\ Len(cgBuilder.effects.items) < MaxGiven
    /\ cgBuilder' = WithEffects(cgBuilder, << effect >>)
    /\ UNCHANGED << cgRoot, cgFiles, cgTarget, cgLast >>
    /\ UNCHANGED << engineVars, viewVars, cacheVars, installerVars >>

\* builder.effects(effects)
EffectsCall(effects) ==
    /\ cgBuilder.live
    /\ Len(cgBuilder.effects.items) + Len(effects) <= MaxGiven
    /\ cgBuilder' = WithEffects(cgBuilder, effects)
    /\ UNCHANGED << cgRoot, cgFiles, cgTarget, cgLast >>
    /\ UNCHANGED << engineVars, viewVars, cacheVars, installerVars >>

\* builder.build(cache)
BuilderBuildCall ==
    /\ cgBuilder.live
    /\ cgTarget' = CargoTargetBuilderBuild(cgBuilder, cgFiles)
    /\ cgBuilder' = ConsumedBuilder
    /\ UNCHANGED << cgRoot, cgFiles, cgLast >>
    /\ UNCHANGED << engineVars, viewVars, cacheVars, installerVars >>

\* target.build(os, arch, dry_run) on the CargoTarget that was built; one
\* call per target is explored.
TargetBuildCall(os, arch, dry_run) ==
    /\ cgTarget.state = "Ok"
    /\ ~cgLast.called
    /\ LET r == CargoTargetBuild(os, arch, dry_run) IN
         cgLast' = [called |-> TRUE, os |-> os, arch |-> arch,
                    dry_run |-> dry_run, outcome |-> r.outcome,
                    triple |-> r.triple, commands |-> r.commands]
    /\ UNCHANGED << cgRoot, cgFiles, cgBuilder, cgTarget >>
    /\ UNCHANGED << engineVars, viewVars, cacheVars, installerVars >>

NextCargo ==
    \/ PathCall(cgRoot)
    \/ \E mode \in {"Release", "Debug"} : ModeCall(mode)
    \/ \E effect \in GivenEffects : EffectCall(effect)
    \/ \E effects \in SeqsUpTo(GivenEffects, MaxGiven) : EffectsCall(effects)
    \/ BuilderBuildCall
    \/ \E os \in OperatingSystems, arch \in Architectures, dry_run \in BOOLEAN :
          TargetBuildCall(os, arch, dry_run)

SpecCargo ==
    InitCargo /\ [][NextCargo]_vars

\* Workspaces whose members lead back to a directory that is being
\* deduced: a member ".", a member p that lists its parent "..", and the
\* two behind a member that is deduced first.
MemberSelf ==
    TWorkspace(TArray(<< TString(".") >>))

MemberParent ==
    TWorkspace(TArray(<< TString("..") >>))

CyclicTrees(r) ==
    { (r :> Manifest(TManifest(TAbsent, own, MemberSelf))) :
        own \in {TAbsent, PackageA} }
      \cup
    { (r :> Manifest(TManifest(TAbsent, own,
                               TWorkspace(TArray(<< TString("p") >>)))))
          @@ (r \o << "p" >> :>
                Manifest(TManifest(TAbsent, TPackage(TString("p")),
                                   MemberParent))) :
        own \in {TAbsent, PackageA} }
      \cup
    { (r :> Manifest(TManifest(TAbsent, PackageA,
                               TWorkspace(TArray(<< TString("q"),
                                                    TString(".") >>)))))
          @@ (r \o << "q" >> :> q) :
        q \in ManifestsOfQ }

InitCyclic ==
    /\ EngineIdle
    /\ ViewIdle
    /\ CacheIdle
    /\ cgRoot \in RootDirs
    /\ cgFiles \in CyclicTrees(cgRoot)
    /\ cgBuilder = NewBuilder("t")
    /\ cgTarget = NoTarget
    /\ cgLast = NoBuildCall
    /\ InstallerIdle

\* deduce_effects went down until the operating system refused the path.
PathExhausted(r) ==
    /\ ~r.ok
    /\ r.kind = "MissingCargoToml"
    /\ Len(r.path) > MaxPath

\* builder.build(cache) when the deduction nests that deep and the stack
\* of the thread ends before the paths get too long: the process is
\* aborted inside deduce_effects and the call never returns.
BuilderBuildAborts ==
    /\ cgBuilder.live
    /\ cgBuilder.path.some
    /\ ~cgBuilder.effects.some
    /\ PathExhausted(deduce_effects(cgBuilder.name, cgBuilder.path.val,
                                    cgBuilder.mode, cgFiles))
    /\ cgTarget' = [NoTarget EXCEPT !.state = "abort", !.deduced = TRUE,
                                    !.name = cgBuilder.name,
                                    !.path = cgBuilder.path.val,
                                    !.mode = cgBuilder.mode]
    /\ cgBuilder' = ConsumedBuilder
    /\ UNCHANGED << cgRoot, cgFiles, cgLast >>
    /\ UNCHANGED << engineVars, viewVars, cacheVars, installerVars >>

NextCyclic ==
    \/ NextCargo
    \/ BuilderBuildAborts

SpecCyclic ==
    InitCyclic /\ [][NextCyclic]_vars

\* ----------------------------------------------------------------------
\* Installer and its Builder
\* ----------------------------------------------------------------------

\* Builder::default: no targets.
DefaultBuilder ==
    [live |-> TRUE, targets |-> << >>]

\* Builder::add_target that leaves out a target whose name the builder
\* already holds.
add_targetSkipsDuplicate(b, target) ==
    IF \E i \in DOMAIN b.targets : b.targets[i].name = target.name
    THEN b
    ELSE [b EXCEPT !.targets = Append(b.targets, target)]

\* Builder::add_target: `self.targets.push(Box::new(target)); self`.
add_target(b, target) ==
    [b EXCEPT !.targets = Append(b.targets, target)]

\* Installer { targets: HashMap<String, Rc<dyn Target>> }, assembled or
\* not: the map as a function of the names it holds.
NoInstaller ==
    [state |-> "None", name |-> "", targets |-> << >>, from |-> << >>]

\* Registration of the targets from target i on into the map: a name the
\* map already holds is a collision, reported with that name.
RECURSIVE Register(_, _, _)
Register(targets, i, map) ==
    IF i > Len(targets)
    THEN [state |-> "Ok", name |-> "", targets |-> map, from |-> targets]
    ELSE IF targets[i].name \in DOMAIN map
    THEN [state |-> "NameCollision", name |-> targets[i].name,
          targets |-> << >>, from |-> targets]
    ELSE Register(targets, i + 1, (targets[i].name :> targets[i]) @@ map)

\* The assembly of an Installer from a Builder.
BuilderBuild(b) ==
    Register(b.targets, 1, << >>)

\* The targets an installer script may add: names, and what tells two
\* targets of one name apart.
AddableTargets ==
    [name : {"a", "b"}, id : {1, 2}]

NoAddCall ==
    [called |-> FALSE, target |-> [name |-> "", id |-> 0],
     before |-> DefaultBuilder, after |-> DefaultBuilder]

InitInstaller ==
    /\ EngineIdle
    /\ ViewIdle
    /\ CacheIdle
    /\ CargoIdle
    /\ bldr = DefaultBuilder
    /\ bldrLast = NoAddCall
    /\ installer = NoInstaller

\* builder = builder.add_target(target)
AddTargetCall(target) ==
    /\ bldr.live
    /\ Len(bldr.targets) < MaxTargets
    /\ bldr' = add_target(bldr, target)
    /\ bldrLast' = [called |-> TRUE, target |-> target, before |-> bldr,
                    after |-> bldr']
    /\ UNCHANGED installer
    /\ UNCHANGED << engineVars, viewVars, cacheVars, cargoVars >>

\* The Installer is assembled from the Builder, which is consumed.
AssembleCall ==
    /\ bldr.live
    /\ installer' = BuilderBuild(bldr)
    /\ bldr' = [bldr EXCEPT !.live = FALSE]
    /\ UNCHANGED bldrLast
    /\ UNCHANGED << engineVars, viewVars, cacheVars, cargoVars >>

NextInstaller ==
    \/ \E target \in AddableTargets : AddTargetCall(target)
    \/ AssembleCall

SpecInstaller ==
    InitInstaller /\ [][NextInstaller]_vars

\* ----------------------------------------------------------------------
\* File effects of several targets on one cache
\* ----------------------------------------------------------------------

\* The artifact paths of the file effects below.
SharePaths ==
    {"x", "y", "yy"}

\* File effects that installer scripts give to targets A, B and C: two
\* with different names on one path, two with one name on different paths,
\* and one on the path whose hash is that of another.
ShareEffects ==
    { [target |-> "A", effect |-> File("e", "x")],
      [target |-> "B", effect |-> File("f", "x")],
      [target |-> "B", effect |-> File("e", "y")],
      [target |-> "C", effect |-> File("g", "yy")] }

\* The entry files there can be in the cache directory.
ShareKeys ==
    { hash(path) : path \in SharePaths }

\* mtime0 and cache0 hold the artifacts and the cache directory as they
\* were before the last call, and log holds that call.
InitShare ==
    /\ graph = "chain"
    /\ mtime \in [SharePaths -> {NoFile, TimeOf(0)}]
    /\ cache \in [ShareKeys -> {NoEntry, Corrupt, TimeOf(0)}]
    /\ clock = 0
    /\ phase = "idle"
    /\ run = 0
    /\ root = "T"
    /\ force = FALSE
    /\ dryRun = FALSE
    /\ stack = << >>
    /\ result = NoResult
    /\ log = << >>
    /\ cache0 = cache
    /\ mtime0 = mtime
    /\ prev = NoPrev
    /\ abortedAt = << >>
    /\ ViewIdle
    /\ CacheIdle
    /\ CargoIdle
    /\ InstallerIdle

\* A build writes the artifact at path, which gets modification time k.
ArtifactWrite(path, k) ==
    /\ TimeOf(k) # mtime[path]
    /\ mtime' = [mtime EXCEPT ![path] = TimeOf(k)]
    /\ log' = << Event("write", "", "", path, TRUE, FALSE) >>
    /\ mtime0' = mtime
    /\ cache0' = cache
    /\ UNCHANGED << graph, cache, clock, phase, run, root, force, dryRun,
                    stack, result, prev, abortedAt >>
    /\ UNCHANGED << viewVars, cacheVars, cargoVars, installerVars >>

\* se.effect.has_changed()
EffectHasChangedCall(se) ==
    LET r == HasChanged(se.effect, mtime, cache) IN
    /\ cache' = DirAfterHasChanged(se.effect, mtime, cache)
    /\ log' = << Event("has_changed", "", se.target, se.effect.name, ~r.err,
                       r.val) >>
    /\ mtime0' = mtime
    /\ cache0' = cache
    /\ UNCHANGED << graph, mtime, clock, phase, run, root, force, dryRun,
                    stack, result, prev, abortedAt >>
    /\ UNCHANGED << viewVars, cacheVars, cargoVars, installerVars >>

\* se.effect.commit_change(dry), where the writes end as io says.
EffectCommitCall(se, dry, io) ==
    LET r == CommitChange(se.effect, dry, mtime, cache, io) IN
    /\ io # "ok" => WritesEntry(se.effect, dry, mtime)
    /\ cache' = r.cache
    /\ dryRun' = dry
    /\ log' = << Event("commit_change", se.target, se.target, se.effect.name,
                       ~r.err, FALSE) >>
    /\ mtime0' = mtime
    /\ cache0' = cache
    /\ UNCHANGED << graph, mtime, clock, phase, run, root, force, stack,
                    result, prev, abortedAt >>
    /\ UNCHANGED << viewVars, cacheVars, cargoVars, installerVars >>

NextShare ==
    \/ \E path \in SharePaths, k \in 0 .. 1 : ArtifactWrite(path, k)
    \/ \E se \in ShareEffects : EffectHasChangedCall(se)
    \/ \E se \in ShareEffects, dry \in BOOLEAN, io \in IoOutcomes :
          EffectCommitCall(se, dry, io)

SpecShare ==
    InitShare /\ [][NextShare]_vars

\* ----------------------------------------------------------------------
\* Vocabulary of the properties
\* ----------------------------------------------------------------------
Range(q) ==
    { q[i] : i \in DOMAIN q }

\* Number of calls of kind ev made for target t in the current / last run.
Count(ev, t) ==
    Cardinality({ i \in DOMAIN log : log[i].ev = ev /\ log[i].t = t })

\* A top-level make has returned.
RunDone ==
    phase = "idle" /\ run >= 1

RunOk ==
    RunDone /\ result.kind = "Ok"

\* The targets of the dependency views of the targets in S.
DirectDeps(S) ==
    UNION { { Deps(t)[i].target : i \in DOMAIN Deps(t) } : t \in S }

\* The least set that contains S and the direct dependencies of its
\* members.
RECURSIVE ReachFrom(_)
ReachFrom(S) ==
    IF DirectDeps(S) \subseteq S THEN S ELSE ReachFrom(S \cup DirectDeps(S))

\* Targets reachable from t through dependency views, t included.
Reach(t) ==
    ReachFrom({t})

\* The transitive dependency closure of t.
Closure(t) ==
    IF Deps(t) = << >> THEN {} ELSE ReachFrom(DirectDeps({t}))

\* A dependency cycle can be reached from the root.
CycleReachable ==
    \E t \in Reach(root) : t \in Closure(t)

\* The filter table: All accepts every effect, None accepts none, Allow(S)
\* accepts the names in S, Deny(S) the names not in S.
Accepts(f, ename) ==
    CASE f.kind = "All"   -> TRUE
      [] f.kind = "None"  -> FALSE
      [] f.kind = "Allow" -> ename \in Range(f.names)
      [] f.kind = "Deny"  -> ename \notin Range(f.names)

AcceptedByAll(filters, ename) ==
    \A i \in DOMAIN filters : Accepts(filters[i], ename)

\* Target c has a dependency view on target h through which e is visible.
Exposes(c, h, e) ==
    \E i \in DOMAIN Deps(c) :
        Deps(c)[i].target = h /\ AcceptedByAll(Deps(c)[i].filters, e.name)

\* When the run started, the artifact of file effect e existed with a
\* modification time that its cache entry, absent or readable, did not
\* record.
ChangedAtStart(e) ==
    /\ e.kind = "file"
    /\ mtime0[e.path] # NoFile
    /\ cache0[e.path] # Corrupt
    /\ cache0[e.path] # mtime0[e.path]

\* When the run started, the artifact of file effect e existed and its
\* cache entry recorded its modification time.
UnchangedAtStart(e) ==
    /\ e.kind = "file"
    /\ mtime0[e.path] # NoFile
    /\ cache0[e.path] = mtime0[e.path]

\* The current run follows, with nothing changed from outside in between,
\* a run that was neither forced nor dry.
AfterPlainRun ==
    run >= 2 /\ ~prev.force /\ ~prev.dryRun /\ ~prev.changed

NoBuildNoCommit ==
    \A i \in DOMAIN log : log[i].ev \notin {"build", "commit_change"}

\* ----------------------------------------------------------------------
\* Properties
\* ----------------------------------------------------------------------

\* C1: no-op idempotence.  When a non-forced, non-dry make of the root has
\* completed successfully and is run again with no change to any artifact
\* or cache file in between, the second run invokes build on no target and
\* commit_change on no effect.
C1_NoOpIdempotence ==
    (AfterPlainRun /\ prev.result.kind = "Ok" /\ ~force /\ ~dryRun)
        => NoBuildNoCommit

\* C2: force semantics.  A successful make of the root with force = true
\* has invoked build exactly once on every target reachable from the root.
C2_ForceBuildsEachOnce ==
    (RunOk /\ force) => \A t \in Reach(root) : Count("build", t) = 1

\* C3: in a single run build is invoked at most once and commit at most
\* once for each target.
C3_BuildAndCommitAtMostOnce ==
    \A t \in Targets : Count("build", t) <= 1 /\ Count("commit", t) <= 1

\* C4: dependency order.  For every build of a target T, every build and
\* every commit_change of a target in T's transitive dependency closure in
\* the run comes before it, and every commit_change of T's own effects
\* comes after it.
C4_DependencyOrder ==
    \A j \in DOMAIN log :
        log[j].ev = "build" =>
            \A k \in DOMAIN log :
                /\ ( /\ log[k].ev \in {"build", "commit_change"}
                     /\ log[k].t \in Closure(log[j].t) ) => k < j
                /\ ( /\ log[k].ev = "commit_change"
                     /\ log[k].t = log[j].t ) => j < k

\* C5: when build(T) returns an error, make returns that error, no
\* commit_change has been invoked on an effect of T in the run, and the
\* cache entries of T's effects are as they were when make(T) was called.
C5_FailedBuildCommitsNothing ==
    (RunDone /\ result.kind = "BuildError") =>
        LET T  == result.name
            fr == abortedAt[Len(abortedAt)]
        IN /\ fr.target = T
           /\ Count("commit_change", T) = 0
           /\ \A i \in DOMAIN Effects(T) :
                 Effects(T)[i].kind = "file" =>
                     cache[Effects(T)[i].path] = fr.entry[Effects(T)[i].path]

\* C6: when build(T) failed in one run, the next run, with no external
\* change and force = false, invokes build(T) again.
C6_FailedBuildIsRetried ==
    ( /\ RunOk
      /\ run >= 2
      /\ prev.result.kind = "BuildError"
      /\ ~prev.changed
      /\ ~force )
        => Count("build", prev.result.name) >= 1

\* C7: first run.  For a root without dependency views that owns one file
\* effect whose artifact has no cache entry, a non-forced make invokes the
\* root's build and then commits the effect, so that the cache gains
\* exactly one entry; a second run with the file untouched invokes neither
\* build nor commit.
C7_FirstRunBuildsAndCommits ==
    ( /\ RunDone
      /\ Deps(root) = << >>
      /\ Len(Effects(root)) = 1
      /\ Effects(root)[1].kind = "file"
      /\ ~force
      /\ ~dryRun )
        => LET p == Effects(root)[1].path IN
           /\ ( /\ run = 1
                /\ mtime0[p] # NoFile
                /\ cache0[p] = NoEntry )
                 => /\ result.kind = "Ok"
                    /\ Count("build", root) = 1
                    /\ Count("commit_change", root) = 1
                    /\ cache[p] # NoEntry
                    /\ \A q \in DOMAIN cache \ {p} : cache[q] = cache0[q]
           /\ (AfterPlainRun /\ prev.result.kind = "Ok") => NoBuildNoCommit

\* The three conclusions of the touched-artifact scenario for effect e of
\* target h in a run that was not forced: h's own build has not been
\* invoked, every has_changed(e) has answered true, and once the run has
\* completed every consumer reachable from the root whose view exposes e
\* has been built.
TouchedArtifactRule(h, e) ==
    /\ Count("build", h) = 0
    /\ \A k \in DOMAIN log :
          ( /\ log[k].ev = "has_changed"
            /\ log[k].o = h
            /\ log[k].e = e.name ) => (log[k].ok /\ log[k].res)
    /\ RunOk =>
          \A c \in Reach(root) : Exposes(c, h, e) => Count("build", c) >= 1

\* C8 as stated: for every effect whose artifact's modification time
\* differs from its cache entry, a non-forced run reports has_changed =
\* true to every consumer viewing it, builds each such consumer and does
\* not invoke the owner's build.
C8_TouchedArtifact_Original ==
    (run >= 1 /\ ~force) =>
        \A h \in Targets : \A i \in DOMAIN Effects(h) :
            ChangedAtStart(Effects(h)[i])
                => TouchedArtifactRule(h, Effects(h)[i])

\* C8 amended: the same for an owner that has no dependency views.
C8_TouchedArtifact ==
    (run >= 1 /\ ~force) =>
        \A h \in Targets : \A i \in DOMAIN Effects(h) :
            (Deps(h) = << >> /\ ChangedAtStart(Effects(h)[i]))
                => TouchedArtifactRule(h, Effects(h)[i])

\* A completed non-forced run over the diamond in which the artifact of D
\* was touched: both consumers of D were built, D was not.
C8_Witness ==
    /\ RunOk
    /\ ~force
    /\ graph = "diamond"
    /\ ChangedAtStart(Effects("D")[1])
    /\ cache0["d"] # NoEntry
    /\ Count("build", "A") >= 1
    /\ Count("build", "B") >= 1
    /\ Count("build", "D") = 0

\* C9: filtered dependency.  B depends on A only through
\* view_names([x]).  In a run that is not forced has_changed is never
\* called on behalf of B on an effect other than x, and when x was
\* unchanged B's build is not invoked, whatever the state of y.
C9_FilteredDependency ==
    (graph \in {"filter", "stalefilter"} /\ run >= 1 /\ ~force) =>
        /\ \A k \in DOMAIN log :
              (log[k].ev = "has_changed" /\ log[k].t = "B")
                  => (log[k].o = "A" /\ log[k].e = "x")
        /\ UnchangedAtStart(Effects("A")[1]) => Count("build", "B") = 0

\* A completed non-forced run in which y had changed and x had not: B
\* asked x only and was not built.
C9_Witness ==
    /\ RunOk
    /\ ~force
    /\ graph = "filter"
    /\ UnchangedAtStart(Effects("A")[1])
    /\ ChangedAtStart(Effects("A")[2])
    /\ \E k \in DOMAIN log :
          /\ log[k].ev = "has_changed"
          /\ log[k].t = "B"
          /\ log[k].e = "x"
          /\ ~log[k].res
    /\ Count("build", "B") = 0

\* The first k effects restricted to those every filter accepts, in
\* insertion order.
RECURSIVE Restricted(_, _, _)
Restricted(effects, filters, k) ==
    IF k = 0 THEN << >>
    ELSE IF AcceptedByAll(filters, effects[k].name)
         THEN Append(Restricted(effects, filters, k - 1), effects[k])
    ELSE Restricted(effects, filters, k - 1)

\* C10: filter law.  Iterating a view, by value or by reference, yields
\* exactly the effects of the target that every filter accepts, each once,
\* in insertion order: what has been yielded is the accepted part of the
\* effects passed so far, and at the end all effects have been passed.
C10_FilterLaw ==
    /\ vOut = Restricted(vEffects, vFilters, vPos)
    /\ vDone => vPos = Len(vEffects)

\* A finished iteration by value through Allow then Deny that kept two of
\* three effects.
C10_Witness ==
    /\ vDone
    /\ vKind = "into"
    /\ Len(vFilters) = 2
    /\ vFilters[1].kind = "Allow"
    /\ vFilters[2].kind = "Deny"
    /\ Len(vEffects) = 3
    /\ Len(vOut) = 2

\* C11: cycle detection.  When a dependency cycle can be reached from the
\* root, make invokes build on no target and returns a DependencyCycle
\* error that names a target on the cycle.
C11_CycleDetection ==
    (CycleReachable /\ run >= 1) =>
        /\ \A t \in Targets : Count("build", t) = 0
        /\ RunDone => /\ result.kind = "DependencyCycle"
                      /\ result.name \in Targets
                      /\ result.name \in Closure(result.name)

\* The call logged last, and the effect of owner o named ename.
LastEvent ==
    log[Len(log)]

EffectNamed(o, ename) ==
    Effects(o)[CHOOSE i \in DOMAIN Effects(o) : Effects(o)[i].name = ename]

\* The last call was has_changed on a file effect; LastFile is that effect.
LastIsFileHasChanged ==
    /\ log # << >>
    /\ LastEvent.ev = "has_changed"
    /\ EffectNamed(LastEvent.o, LastEvent.e).kind = "file"

LastFile ==
    EffectNamed(LastEvent.o, LastEvent.e)

\* C12: the cache is written only by commit.  A has_changed call, whatever
\* it returns, leaves every cache entry as it was, and a step that changes
\* a cache entry is a commit_change outside a dry run.
C12_CacheWrittenOnlyByCommit ==
    [][ /\ (log' # log /\ log'[Len(log')].ev = "has_changed")
            => cache' = cache
        /\ cache' # cache
            => /\ log' = Append(log, log'[Len(log')])
               /\ log'[Len(log')].ev = "commit_change"
               /\ ~dryRun ]_vars

\* A run in which has_changed of file effects has answered true and
\* false, and in which a commit has changed the cache.
C12_Witness ==
    /\ cache # cache0
    /\ \E j, k \in DOMAIN log :
          /\ log[j].ev = "has_changed" /\ log[j].ok /\ log[j].res
          /\ EffectNamed(log[j].o, log[j].e).kind = "file"
          /\ log[k].ev = "has_changed" /\ log[k].ok /\ ~log[k].res
          /\ EffectNamed(log[k].o, log[k].e).kind = "file"

\* C13: has_changed of a file effect whose artifact exists and whose cache
\* entry, if any, is readable succeeds, and answers true exactly when
\* there is no cache entry or the cached time differs from the artifact's
\* modification time (a cached time later than the artifact's included).
C13_HasChangedLaw ==
    ( /\ LastIsFileHasChanged
      /\ mtime[LastFile.path] # NoFile
      /\ cache[LastFile.path] # Corrupt )
        => /\ LastEvent.ok
           /\ LastEvent.res <=> ( \/ cache[LastFile.path] = NoEntry
                                  \/ cache[LastFile.path] # mtime[LastFile.path] )

\* has_changed has just answered true for an artifact whose cached time
\* is later than its modification time.
C13_Witness ==
    /\ LastIsFileHasChanged
    /\ mtime[LastFile.path] # NoFile
    /\ cache[LastFile.path] \notin {NoEntry, Corrupt}
    /\ TimeGt(cache[LastFile.path], mtime[LastFile.path])
    /\ LastEvent.ok
    /\ LastEvent.res

\* C14: has_changed of a file effect whose artifact does not exist returns
\* an error, with or without a cache entry; a has_changed error ends the
\* run with HasChangedError naming the effect, so that no call, and no
\* build of the consumer, follows it.
C14_MissingArtifactIsError ==
    /\ (LastIsFileHasChanged /\ mtime[LastFile.path] = NoFile)
          => ~LastEvent.ok
    /\ \A k \in DOMAIN log :
          (log[k].ev = "has_changed" /\ ~log[k].ok)
              => /\ k = Len(log)
                 /\ phase = "idle"
                 /\ result = [kind |-> "HasChangedError", name |-> log[k].e]

\* has_changed has just failed on a missing artifact that has a cache
\* entry.
C14_Witness ==
    /\ LastIsFileHasChanged
    /\ mtime[LastFile.path] = NoFile
    /\ cache[LastFile.path] \notin {NoEntry, Corrupt}
    /\ ~LastEvent.ok
    /\ result.kind = "HasChangedError"
    /\ Count("build", LastEvent.t) = 0

\* Event k is a successful commit_change, outside a dry run, of a file
\* effect, event j a later has_changed on the same effect, and the owner
\* of the effect has not been built in between.
AskedAfterCommit(k, j) ==
    /\ k < j
    /\ ~dryRun
    /\ log[k].ev = "commit_change"
    /\ log[k].ok
    /\ EffectNamed(log[k].o, log[k].e).kind = "file"
    /\ log[j].ev = "has_changed"
    /\ log[j].o = log[k].o
    /\ log[j].e = log[k].e
    /\ \A i \in k .. j : ~(log[i].ev = "build" /\ log[i].t = log[k].o)

\* C15: commit sets the baseline.  Right after a successful commit_change
\* of a file effect outside a dry run the cache holds the artifact's
\* modification time, and has_changed on that effect answers false for as
\* long as the artifact is not written again.
C15_CommitSetsBaseline ==
    /\ ( /\ log # << >>
          /\ LastEvent.ev = "commit_change"
          /\ LastEvent.ok
          /\ LastFile.kind = "file"
          /\ ~dryRun )
          => /\ mtime[LastFile.path] # NoFile
             /\ cache[LastFile.path] = mtime[LastFile.path]
    /\ \A k, j \in DOMAIN log :
          AskedAfterCommit(k, j) => (log[j].ok /\ ~log[j].res)

\* A build wrote an artifact that had no cache entry, commit stored its
\* time, and a consumer then asked has_changed.
C15_Witness ==
    \E k, j \in DOMAIN log :
        /\ AskedAfterCommit(k, j)
        /\ ~log[j].res
        /\ LET q == EffectNamed(log[k].o, log[k].e).path
           IN /\ cache0[q] = NoEntry
              /\ mtime[q] # mtime0[q]

DryAndRealRun ==
    /\ RunDone
    /\ run >= 2
    /\ prev.dryRun # dryRun
    /\ prev.force = force
    /\ prev.clean
    /\ ~prev.changed

\* This run is the real one of the pair, and it met no failure that only
\* a real run can meet: a build that failed, a cache write that failed or
\* an exhausted stack.
RealRunWithoutBuildFailure ==
    /\ DryAndRealRun
    /\ ~dryRun
    /\ result.kind \notin {"BuildError", "StackOverflow"}
    /\ prev.result.kind \notin {"BuildError", "StackOverflow"}
    /\ \A k \in DOMAIN log :
          (log[k].ev = "commit_change" /\ ~log[k].ok)
              => mtime[EffectNamed(log[k].o, log[k].e).path] = NoFile

\* C17 as stated: a dry run and a real run from the same state return an
\* error in the same cases, and then the same error on the same effect.
C17_DryRunSameErrors_Original ==
    RealRunWithoutBuildFailure => prev.result = result

\* C17 amended: a dry run and a real run from the same state return an
\* error before any build has been invoked in the same cases, and then
\* the same error on the same effect or target.
C17_DryRunSameErrors ==
    DryAndRealRun =>
        LET early     == result.kind # "Ok" /\ ~\E i \in DOMAIN log : log[i].ev = "build"
            prevEarly == prev.result.kind # "Ok" /\ ~prev.built
        IN /\ early <=> prevEarly
           /\ early => result = prev.result

\* A real run that failed on a malformed cache entry before any build,
\* after a dry run from the same state.
C17_Witness ==
    /\ DryAndRealRun
    /\ ~dryRun
    /\ result.kind = "HasChangedError"
    /\ prev.result = result
    /\ ~prev.built
    /\ \A i \in DOMAIN log : log[i].ev # "build"
    /\ \E q \in DOMAIN cache : cache[q] = Corrupt

\* C18: cache put is atomic.  After an update_file that returned an error
\* get_file for that path returns what it returned before the call.
C18_PutIsAtomic ==
    (cLast.op = "update_file" /\ cLast.err)
        => cache[cLast.path] = cLast.before

\* C19: cache get.  has_changed of a file effect whose artifact exists
\* answers true when there is no entry file; when the entry file is
\* malformed it fails, the run ends with HasChangedError, and the
\* malformed file is left in place.
C19_AbsentAndMalformedEntries ==
    [][ ( /\ log' # log
          /\ log'[Len(log')].ev = "has_changed"
          /\ EffectNamed(log'[Len(log')].o, log'[Len(log')].e).kind = "file"
          /\ mtime[EffectNamed(log'[Len(log')].o, log'[Len(log')].e).path] # NoFile )
        => LET ev == log'[Len(log')]
               q  == EffectNamed(ev.o, ev.e).path
           IN /\ cache[q] = NoEntry
                   => (ev.ok /\ ev.res /\ cache'[q] = NoEntry)
              /\ cache[q] = Corrupt
                   => /\ ~ev.ok
                      /\ cache'[q] = Corrupt
                      /\ result' = [kind |-> "HasChangedError", name |-> ev.e]
      ]_vars

\* has_changed has just failed on an existing artifact whose entry file is
\* malformed, and the file is still malformed.
C19_Witness ==
    /\ LastIsFileHasChanged
    /\ mtime[LastFile.path] # NoFile
    /\ cache[LastFile.path] = Corrupt
    /\ ~LastEvent.ok
    /\ result.kind = "HasChangedError"

\* C20: cache round trip.  Right after a successful update_file, get_file
\* of the path returns the entry written; get_file returns the entry of
\* the last successful update_file of its path, whatever was stored
\* before.
C20_RoundTrip ==
    /\ (cLast.op = "update_file" /\ ~cLast.err)
          => GetFile(cache, cLast.path)
               = [err |-> FALSE, some |-> TRUE, entry |-> cLast.entry,
                  cache |-> cache]
    /\ (cLast.op = "get_file" /\ cPut[cLast.path].entry # NoEntry)
          => /\ ~cLast.err
             /\ cLast.some
             /\ cLast.entry = cPut[cLast.path].entry

\* get_file has returned an entry with negative two-digit seconds and
\* non-zero nanoseconds that replaced an earlier, different entry.
C20_Witness ==
    /\ cLast.op = "get_file"
    /\ cLast.some
    /\ cLast.entry = << 0 - MaxSecs, 1 >>
    /\ cPut[cLast.path].entry = cLast.entry
    /\ cPut[cLast.path].over

FailedFrame ==
    abortedAt[Len(abortedAt)]

LastCommitEntry ==
    CHOOSE i \in DOMAIN log :
        /\ log[i].ev = "commit"
        /\ \A j \in DOMAIN log : log[j].ev = "commit" => j <= i

\* The first part of C22 for a run, not a dry one, that ended with
\* CommitError in commit(T) at own effect number k: commit_change was
\* called on effects 1 .. k of T in insertion order and on no other, it
\* succeeded on 1 .. k-1, and the error names effect k.
CommitStoppedAt(T, k) ==
    /\ FailedFrame.pc = "commit"
    /\ result.name = Effects(T)[k].name
    /\ Len(log) = LastCommitEntry + k
    /\ \A i \in 1 .. k :
          log[LastCommitEntry + i]
              = Event("commit_change", T, T, Effects(T)[i].name, i < k, FALSE)

\* C22: commit stops at the first failure.  When commit_change of the k-th
\* own effect of T fails, effects 1 .. k-1 have been committed, effects
\* k .. n have not, and the CommitError names the k-th effect; asked
\* afterwards, effects 1 .. k-1 report unchanged, and the k-th, if it
\* reported changed before the commit, still reports changed.
C22_CommitStopsAtFirstFailure ==
    (RunDone /\ result.kind = "CommitError" /\ ~dryRun) =>
        LET T == FailedFrame.target
            k == FailedFrame.ei
        IN /\ CommitStoppedAt(T, k)
           /\ \A i \in 1 .. k - 1 :
                 HasChanged(Effects(T)[i], mtime, cache) = Ok(FALSE)
           /\ HasChanged(Effects(T)[k], mtime, FailedFrame.entry) = Ok(TRUE)
                 => HasChanged(Effects(T)[k], mtime, cache) = Ok(TRUE)

\* The error make returns when a call of kind ev fails.
ErrorOf(ev) ==
    CASE ev = "build"         -> "BuildError"
      [] ev = "has_changed"   -> "HasChangedError"
      [] ev = "commit_change" -> "CommitError"

\* C23: stop on first failure.  Once a build, has_changed or commit_change
\* of a run has returned an error, no further call is made in that run on
\* any target or effect, the failed call included, and the top-level make
\* has returned the corresponding error.
C23_StopOnFirstFailure ==
    \A k \in DOMAIN log :
        (log[k].ev \in {"build", "has_changed", "commit_change"} /\ ~log[k].ok)
            => /\ k = Len(log)
               /\ phase = "idle"
               /\ stack = << >>
               /\ result.kind = ErrorOf(log[k].ev)

\* has_changed failed two activations deep while the root still had a
\* dependency view to make, and the run ended there.
C23_Witness ==
    /\ RunDone
    /\ result.kind = "HasChangedError"
    /\ Len(abortedAt) >= 2
    /\ abortedAt[1].vi < Len(Deps(abortedAt[1].target))
    /\ ~LastEvent.ok

\* Target c has a dependency view through which a TrueEffect is visible.
ViewsTrueEffect(c) ==
    \E i \in DOMAIN Deps(c) :
        \E j \in DOMAIN Effects(Deps(c)[i].target) :
            /\ Effects(Deps(c)[i].target)[j].kind = "true"
            /\ AcceptedByAll(Deps(c)[i].filters,
                             Effects(Deps(c)[i].target)[j].name)

\* C24: trivial effects.  Every has_changed of a TrueEffect answers true
\* and every has_changed of a FalseEffect answers false, in any state of
\* the cache and before or after commit_change; has_changed and
\* commit_change of both never fail and leave the cache as it is.  So a
\* make of a target that views a TrueEffect never returns without
\* building it, and in every run that completes each reachable target
\* viewing a TrueEffect has been built.
C24_TrivialEffects ==
    [][ /\ ( /\ log' # log
             /\ log'[Len(log')].ev \in {"has_changed", "commit_change"}
             /\ EffectNamed(log'[Len(log')].o, log'[Len(log')].e).kind
                    \in {"true", "false"} )
            => /\ log'[Len(log')].ok
               /\ cache' = cache
               /\ log'[Len(log')].ev = "has_changed"
                     => ( log'[Len(log')].res
                            <=> EffectNamed(log'[Len(log')].o,
                                            log'[Len(log')].e).kind = "true" )
        /\ ( /\ phase = "running"
             /\ Top.pc = "deps"
             /\ log' = log
             /\ Len(stack') < Len(stack) )
            => ~ViewsTrueEffect(Top.target)
        /\ (phase' = "idle" /\ result'.kind = "Ok")
            => \A c \in Reach(root) :
                  ViewsTrueEffect(c)
                      => \E i \in DOMAIN log' :
                            log'[i].ev = "build" /\ log'[i].t = c
      ]_vars

\* A second, non-forced run over the diamond with nothing changed: A,
\* whose TrueEffect was committed in the run before, was not built, its
\* TrueEffect answered true and R was built.
C24_Witness ==
    /\ RunOk
    /\ run = 2
    /\ ~force
    /\ prev.force
    /\ prev.result.kind = "Ok"
    /\ graph = "diamond"
    /\ Count("build", "A") = 0
    /\ Count("build", "R") = 1
    /\ \E k \in DOMAIN log :
          /\ log[k].ev = "has_changed"
          /\ log[k].o = "A"
          /\ log[k].e = "<true>"
          /\ log[k].res
    /\ \E k \in DOMAIN log :
          /\ log[k].ev = "has_changed"
          /\ log[k].o = "B"
          /\ log[k].e = "<false>"
          /\ ~log[k].res

\* CargoTargetBuilder::build has returned a target, or an error, after
\* deducing the effects from the manifests.
DeductionDone ==
    cgTarget.deduced /\ cgTarget.state \in {"Ok", "Err"}

DeductionOk ==
    cgTarget.deduced /\ cgTarget.state = "Ok"

\* C25: effect names are unique within a target.  The effects of every
\* target that CargoTargetBuilder::build returns, deduced or given, have
\* pairwise distinct names.
C25_EffectNamesUnique ==
    cgTarget.state = "Ok" =>
        \A i, j \in DOMAIN cgTarget.effects :
            i # j => cgTarget.effects[i].name # cgTarget.effects[j].name

\* The tables of the specification: triple fragment per architecture and
\* suffix per operating system.
FragmentTable ==
    [ x86_32 |-> "i686", x86_64 |-> "x86_64", Aarch32 |-> "arm",
      Aarch64 |-> "aarch64", PowerPc32 |-> "powerpc",
      PowerPc64 |-> "powerpc64", Mips |-> "mips" ]

SuffixTable ==
    [ Windows |-> "-pc-windows-msvc", MacOs |-> "-apple-darwin",
      Linux |-> "-unknown-linux-gnu" ]

\* C26: CargoTarget::build maps every (os, arch) pair without Custom to
\* the fragment of the architecture followed by the suffix of the
\* operating system, and with a Custom architecture or operating system
\* it fails and runs no command.
C26_TargetTriple ==
    cgLast.called =>
        IF cgLast.arch = "Custom" \/ cgLast.os = "Custom"
        THEN cgLast.outcome # "Ok" /\ cgLast.commands = << >>
        ELSE /\ cgLast.outcome = "Ok"
             /\ cgLast.triple = FragmentTable[cgLast.arch] \o SuffixTable[cgLast.os]

\* A target with deduced effects was built for 32-bit ARM on macOS.
C26_Witness ==
    /\ cgLast.called
    /\ DeductionOk
    /\ cgLast.arch = "Aarch32"
    /\ cgLast.os = "MacOs"
    /\ cgLast.outcome = "Ok"
    /\ cgLast.triple = "arm-apple-darwin"

\* What the manifest tree declares, for manifests that are well formed:
\* the binaries of the manifest of directory path (its [[bin]] names if it
\* has a bin array, else its package name if it has one), each with the
\* directory, followed by what its workspace members declare, in member
\* order.
DeclaredOwn(path) ==
    LET v == ManifestAt(cgFiles, path).value IN
    IF Get(v, "bin").some
    THEN [ i \in DOMAIN v.bin.items |->
             [dir |-> path, bin |-> v.bin.items[i].name.str] ]
    ELSE IF Get(v, "package").some
    THEN << [dir |-> path, bin |-> v.package.name.str] >>
    ELSE << >>

DeclaredMembers(path) ==
    LET v == ManifestAt(cgFiles, path).value IN
    IF Get(v, "workspace").some
    THEN [ i \in DOMAIN v.workspace.members.items |->
             v.workspace.members.items[i].str ]
    ELSE << >>

RECURSIVE Declared(_)
RECURSIVE DeclaredFrom(_, _, _)

DeclaredFrom(path, members, i) ==
    IF i > Len(members) THEN << >>
    ELSE Declared(path \o << members[i] >>)
            \o DeclaredFrom(path, members, i + 1)

Declared(path) ==
    DeclaredOwn(path) \o DeclaredFrom(path, DeclaredMembers(path), 1)

\* C27: effect deduction.  The deduced effects are file effects named
\* <target>_<bin>, one per declared binary: for each manifest one per bin
\* entry, in order, when it has a bin array (its package name then not
\* being used), else one for its package name, followed by the effects of
\* its workspace members, in member order.
C27_EffectDeduction ==
    DeductionOk =>
        LET D == Declared(cgTarget.path) IN
        /\ Len(cgTarget.effects) = Len(D)
        /\ \A i \in DOMAIN D :
              /\ cgTarget.effects[i].kind = "file"
              /\ cgTarget.effects[i].name = cgTarget.name \o "_" \o D[i].bin

\* Effects were deduced from a workspace root with a package of its own,
\* whose member p is a workspace with a package and the member q, and
\* whose member q has a bin array: root, p, p/q, q.
C27_Witness ==
    /\ DeductionOk
    /\ Len(cgTarget.effects) = 4
    /\ cgTarget.effects[1].name = "t_a"
    /\ cgTarget.effects[2].name = "t_p"
    /\ cgTarget.effects[3].name = "t_n"
    /\ cgTarget.effects[4].name = "t_c"

\* The build directory of a mode, by the specification.
ModeSubdir(mode) ==
    IF mode = "Debug" THEN "debug" ELSE "release"

\* C28: artifact paths.  Every deduced effect has the artifact path
\* <path>/target/<mode-subdir>/<bin-name>, where <path> is the directory
\* of the manifest that declares the binary, or the directory the target
\* is rooted at.
C28_ArtifactPaths ==
    DeductionOk =>
        LET D == Declared(cgTarget.path) IN
        \A i \in DOMAIN D :
            \/ cgTarget.effects[i].path
                  = D[i].dir \o << "target", ModeSubdir(cgTarget.mode), D[i].bin >>
            \/ cgTarget.effects[i].path
                  = cgTarget.path
                      \o << "target", ModeSubdir(cgTarget.mode), D[i].bin >>

\* The manifest v has the shape deduction asks for: a bin key holds an
\* array of tables with a string as name; without a bin key, a package
\* key holds a table with a string as name; a workspace key holds a table
\* whose members are an array of strings.
WellFormedManifest(v) ==
    /\ v.type = "table"
    /\ Get(v, "bin").some =>
          /\ v.bin.type = "array"
          /\ \A i \in DOMAIN v.bin.items :
                /\ v.bin.items[i].type = "table"
                /\ v.bin.items[i].name.type = "string"
    /\ (~Get(v, "bin").some /\ Get(v, "package").some) =>
          /\ v.package.type = "table"
          /\ v.package.name.type = "string"
    /\ Get(v, "workspace").some =>
          /\ v.workspace.type = "table"
          /\ v.workspace.members.type = "array"
          /\ \A i \in DOMAIN v.workspace.members.items :
                v.workspace.members.items[i].type = "string"

\* The manifest of directory path and those of the members it recursively
\* lists exist, are TOML and are well formed.
RECURSIVE WellFormedTree(_)
WellFormedTree(path) ==
    /\ ManifestAt(cgFiles, path).state = "toml"
    /\ WellFormedManifest(ManifestAt(cgFiles, path).value)
    /\ \A i \in DOMAIN DeclaredMembers(path) :
          WellFormedTree(path \o << DeclaredMembers(path)[i] >>)

\* C29: effects unknown.  When no manifest is malformed, deduction fails
\* with the effects-unknown error exactly when the top-level manifest and
\* the members it recursively lists declare no binary at all; when they
\* declare at least one, deduction succeeds and returns an effect for
\* each.
C29_EffectsUnknown ==
    (DeductionDone /\ WellFormedTree(cgTarget.path)) =>
        LET total == Len(Declared(cgTarget.path)) IN
        /\ ( /\ cgTarget.state = "Err"
             /\ cgTarget.error.kind = "CargoTomlEffectsDeduceError" )
              <=> total = 0
        /\ total >= 1
              => cgTarget.state = "Ok" /\ Len(cgTarget.effects) = total

\* C30: manifest failures.  Deduction fails with the missing-file kind
\* when the Cargo.toml of the directory does not exist, with the open or
\* read kind when it exists and cannot be opened or read, with the parse
\* kind when it is not TOML, with a type kind for a wrongly typed field
\* and a missing-field kind for a missing name; and the error carries the
\* path of a manifest file.
C30_ManifestErrorKinds ==
    DeductionDone =>
        LET f == ManifestAt(cgFiles, cgTarget.path)
            e == cgTarget.error
        IN /\ f.state = "missing" => e.kind = "MissingCargoToml"
           /\ f.state = "denied" => e.kind = "CargoTomlOpenError"
           /\ f.state = "unreadable" => e.kind = "CargoTomlReadError"
           /\ f.state = "garbage" => e.kind = "CargoTomlParseError"
           /\ (f.state = "toml" /\ Get(f.value, "bin").some
                    /\ f.value.bin.type # "array")
                 => e.kind = "CargoTomlBinsTypeError"
           /\ (f.state = "toml" /\ ~Get(f.value, "bin").some
                    /\ Get(f.value, "package").some
                    /\ ~Get(f.value.package, "name").some)
                 => e.kind = "CargoTomlMissingName"
           /\ cgTarget.state = "Err"
                 => e.path[Len(e.path)] = "Cargo.toml"

\* ----------------------------------------------------------------------
\* C31  Target names are checked when the Installer is assembled, not when
\*      targets are added: add_target never rejects a target, it appends it
\*      after the earlier ones even when the name is already there; and the
\*      assembly of a Builder that holds two targets of one name reports a
\*      name collision, while without such a pair the Installer holds every
\*      target that was added.
\* ----------------------------------------------------------------------
HoldsNameTwice(targets) ==
    \E i, j \in DOMAIN targets : i < j /\ targets[i].name = targets[j].name

NextMake(j) ==
    LET later == { k \in DOMAIN log :
                     k > j /\ log[k].ev = "make" /\ log[k].t = log[j].t }
    IN IF later = {} THEN Len(log) + 1
       ELSE CHOOSE k \in later : \A m \in later : k <= m

\* The calls made on behalf of the make called at position j.
Activation(j) ==
    { k \in DOMAIN log : j < k /\ k < NextMake(j) /\ log[k].t = log[j].t }

StalenessRule(j) ==
    LET T       == log[j].t
        asked   == { k \in Activation(j) : log[k].ev = "has_changed" }
        builds  == { k \in Activation(j) : log[k].ev = "build" }
    IN /\ Cardinality(builds) <= 1
       /\ builds # {} <=> (force \/ \E k \in asked : log[k].res)
       /\ \A k \in builds :
             /\ k + 1 \in Activation(j)
             /\ log[k + 1].ev = "commit"
             /\ \A a \in asked : a < k
       /\ \A k \in asked :
             /\ log[k].o # T
             /\ \E i \in DOMAIN Effects(log[k].o) :
                   /\ Effects(log[k].o)[i].name = log[k].e
                   /\ Exposes(T, log[k].o, Effects(log[k].o)[i])
       /\ (Deps(T) = << >> /\ ~force) => builds = {}

C32_StalenessRule ==
    RunOk => \A j \in DOMAIN log : log[j].ev = "make" => StalenessRule(j)

\* A completed non-forced run in which B was built because effect x of A
\* answered changed, while A, which has no dependency views, was not
\* built although its artifacts had changed.
C32_Witness ==
    /\ RunOk
    /\ ~force
    /\ graph = "filter"
    /\ ChangedAtStart(Effects("A")[1])
    /\ ChangedAtStart(Effects("A")[2])
    /\ Count("build", "B") = 1
    /\ Count("build", "A") = 0

\* ----------------------------------------------------------------------
\* C33  build_deps does not short-circuit.  In a run that completed without
\*      error the calls are exactly these, in this order: make(T) calls
\*      make on the target of each of its views, in list order, and right
\*      after each of them has_changed on every effect visible through
\*      that view, in order, whatever the earlier answers were; its result
\*      is force or the disjunction of all those answers, and build and
\*      commit follow when it is true.
\* ----------------------------------------------------------------------

\* The effects visible through view v, in insertion order.
Visible(v) ==
    Restricted(Effects(v.target), v.filters, Len(Effects(v.target)))

Failed ==
    [pos |-> 0, outdated |-> FALSE]

IsCall(pos, ev, t, o, e) ==
    /\ pos \in DOMAIN log
    /\ log[pos].ev = ev
    /\ log[pos].t = t
    /\ log[pos].o = o
    /\ log[pos].e = e
    /\ log[pos].ok

\* The log from position pos on holds has_changed calls for T on the
\* effects es of D from effect i on: the position after them and the
\* disjunction of outdated and the answers, or Failed.
RECURSIVE ExpectEffects(_, _, _, _, _, _)
ExpectEffects(T, D, es, i, pos, outdated) ==
    IF i > Len(es) THEN [pos |-> pos, outdated |-> outdated]
    ELSE IF ~IsCall(pos, "has_changed", T, D, es[i].name) THEN Failed
    ELSE ExpectEffects(T, D, es, i + 1, pos + 1, outdated \/ log[pos].res)

RECURSIVE ExpectMake(_, _)
RECURSIVE ExpectViews(_, _, _, _)

\* The same for the views of T from view vi on: the make of the view's
\* target, then the has_changed calls on what the view shows.
ExpectViews(T, vi, pos, outdated) ==
    IF vi > Len(Deps(T)) THEN [pos |-> pos, outdated |-> outdated]
    ELSE LET v == Deps(T)[vi]
             m == ExpectMake(v.target, pos)
         IN IF m = 0 THEN Failed
            ELSE LET r == ExpectEffects(T, v.target, Visible(v), 1, m,
                                        outdated)
                 IN IF r.pos = 0 THEN Failed
                    ELSE ExpectViews(T, vi + 1, r.pos, r.outdated)

\* The log from position j on holds one whole call of make(T): the
\* position after it, or 0.
ExpectMake(T, j) ==
    IF ~IsCall(j, "make", T, "", "") THEN 0
    ELSE LET r == ExpectViews(T, 1, j + 1, force) IN
         IF r.pos = 0 THEN 0
         ELSE IF ~r.outdated THEN r.pos
         ELSE IF /\ IsCall(r.pos, "build", T, "", "")
                 /\ IsCall(r.pos + 1, "commit", T, "", "")
                 /\ \A i \in DOMAIN Effects(T) :
                       IsCall(r.pos + 1 + i, "commit_change", T, T,
                              Effects(T)[i].name)
         THEN r.pos + 2 + Len(Effects(T))
         ELSE 0

C33_NoShortCircuit ==
    RunOk => ExpectMake(root, 1) = Len(log) + 1

\* A completed non-forced run over the diamond in which R was told by A's
\* effect that it had changed and went on to make B and to ask B's
\* effect; and one over the pair in which B was told by the first effect
\* of the view that it had changed and went on to ask the second.
C33_Witness ==
    /\ RunOk
    /\ ~force
    /\ \/ /\ graph = "diamond"
          /\ \E k1, k2 \in DOMAIN log :
                /\ k1 < k2
                /\ log[k1].ev = "has_changed" /\ log[k1].t = "R"
                /\ log[k1].res
                /\ log[k2].ev = "has_changed" /\ log[k2].t = "R"
                /\ ~log[k2].res
                /\ \E m \in DOMAIN log :
                      k1 < m /\ m < k2 /\ log[m].ev = "make" /\ log[m].t = "B"
       \/ /\ graph = "pair"
          /\ \E k \in DOMAIN log :
                /\ k + 1 \in DOMAIN log
                /\ log[k].ev = "has_changed" /\ log[k].t = "B"
                /\ log[k].e = "<true>" /\ log[k].res
                /\ log[k + 1].ev = "has_changed" /\ log[k + 1].t = "B"
                /\ log[k + 1].e = "<false>" /\ ~log[k + 1].res

\* ----------------------------------------------------------------------
\* C34  Rebuild propagation.  In a run that is not forced and completes
\*      without error, when a target D was built and its build wrote the
\*      artifact of one of its file effects e, every target reachable from
\*      the root whose dependency view exposes e has been built in that
\*      run as well.
\* ----------------------------------------------------------------------
C34_RebuildPropagation ==
    (RunOk /\ ~force) =>
        \A D \in Targets : \A i \in DOMAIN Effects(D) :
            LET e == Effects(D)[i] IN
            ( /\ e.kind = "file"
              /\ Count("build", D) >= 1
              /\ mtime[e.path] # mtime0[e.path] )
                => \A c \in Reach(root) :
                      Exposes(c, D, e) => Count("build", c) >= 1

\* ----------------------------------------------------------------------
\* C35  Shared cache baseline.  Cache entries are keyed by the artifact
\*      path alone.  After commit_change of file effect e, the entry and
\*      the has_changed answer of every file effect whose path neither is
\*      that of e nor has the same hash are what they were before,
\*      whatever the names of the effects and of their targets; after a
\*      commit that wrote, the answer of every effect on the path of e, or
\*      on a path of the same hash, is decided by what e stored, and for
\*      the path of e it is "unchanged".
\* ----------------------------------------------------------------------

\* Paths that share an entry file: the same path, or the two paths whose
\* hashes collide.
SameKey(p, q) ==
    p = q \/ {p, q} = {"y", "yy"}

\* What get_file tells of the entry of path p in directory ch.
EntryRead(ch, p) ==
    << GetFile(ch, p).err, GetFile(ch, p).some, GetFile(ch, p).entry >>

LastCommitted ==
    CHOOSE se \in ShareEffects :
        se.target = log[1].o /\ se.effect.name = log[1].e

C35_SharedBaseline ==
    (log # << >> /\ log[1].ev = "commit_change") =>
        LET e == LastCommitted.effect IN
        \A sf \in ShareEffects :
            LET f == sf.effect IN
            /\ ~SameKey(f.path, e.path) =>
                  /\ EntryRead(cache, f.path) = EntryRead(cache0, f.path)
                  /\ HasChanged(f, mtime, cache)
                       = HasChanged(f, mtime0, cache0)
            /\ (SameKey(f.path, e.path) /\ log[1].ok /\ ~dryRun) =>
                  /\ EntryRead(cache, f.path)
                       = << FALSE, TRUE, mtime[e.path] >>
                  /\ HasChanged(f, mtime, cache)
                       = IF mtime[f.path] = NoFile THEN Err
                         ELSE Ok(mtime[f.path] # mtime[e.path])
                  /\ f.path = e.path => HasChanged(f, mtime, cache) = Ok(FALSE)

\* The commit of A's effect e has turned the answer of B's effect f, which
\* is on the same path, from changed to unchanged, and has left B's effect
\* e, which is on another path, changed.
C35_Witness ==
    /\ log # << >>
    /\ log[1].ev = "commit_change"
    /\ log[1].ok
    /\ ~dryRun
    /\ LastCommitted = [target |-> "A", effect |-> File("e", "x")]
    /\ HasChanged(File("f", "x"), mtime0, cache0) = Ok(TRUE)
    /\ HasChanged(File("f", "x"), mtime, cache) = Ok(FALSE)
    /\ HasChanged(File("e", "y"), mtime0, cache0) = Ok(TRUE)
    /\ HasChanged(File("e", "y"), mtime, cache) = Ok(TRUE)

\* ----------------------------------------------------------------------
\* C36  Filters commute and only narrow.  The sequence of effects that the
\*      iteration of a view yields is the same for every permutation of
\*      the view's filter list, and the effects of the view that add_filter
\*      returns are a subsequence of the effects of the view it was called
\*      on, whatever the filter added.
\* ----------------------------------------------------------------------

\* What the iterator of the given kind yields from position pos on until
\* next() returns None.
RECURSIVE Collect(_, _, _, _)
Collect(kind, effects, filters, pos) ==
    LET nx == IF kind = "into" THEN IntoIterNext(effects, filters, pos)
              ELSE IterNext(effects, filters, pos)
    IN IF nx.item = 0 THEN << >>
       ELSE << effects[nx.item] >> \o Collect(kind, effects, filters, nx.pos)

\* The permutations of sequence q.
PermutationsOf(q) ==
    { [i \in DOMAIN q |-> q[pi[i]]] :
        pi \in { f \in [DOMAIN q -> DOMAIN q] :
                   \A i, j \in DOMAIN q : f[i] = f[j] => i = j } }

\* a from position i on is a subsequence of b from position j on.
RECURSIVE IsSubsequence(_, _, _, _)
IsSubsequence(a, i, b, j) ==
    IF i > Len(a) THEN TRUE
    ELSE IF j > Len(b) THEN FALSE
    ELSE IF a[i] = b[j] THEN IsSubsequence(a, i + 1, b, j + 1)
    ELSE IsSubsequence(a, i, b, j + 1)

Returned ==
    /\ phase = "idle"
    /\ result.kind \in {"Ok", "BuildError", "HasChangedError", "CommitError"}

C37_Termination ==
    (phase = "running" /\ ~CycleReachable) ~> Returned

\* A make of the root of the diamond, in which D is made twice, has
\* returned Ok after every target was built.
C37_Witness ==
    /\ Returned
    /\ run = 1
    /\ graph = "diamond"
    /\ result.kind = "Ok"
    /\ Count("make", "D") = 2
    /\ \A t \in Targets : Count("build", t) >= 1

\* ----------------------------------------------------------------------
\* C38  Termination of the deduction.  Every deduction of the effects of
\*      a CargoTarget comes to an end and returns the effects or an
\*      error, also when the members of a workspace lead back to a
\*      directory that is already being deduced (a member ".", or a
\*      member that lists its parent).
\* ----------------------------------------------------------------------
C38_DeductionReturns ==
    cgTarget.deduced => cgTarget.state \in {"Ok", "Err"}

====
